---- MODULE Spec2Model ----
(***************************************************************************)
(* A model of the snowball game: the kinematic ball (Ball in               *)
(* src/src/Terrain.ts), the collision resolver and replication session     *)
(* (src/src/Game.ts), the remote proxy (src/src/RemoteBall.ts) and the     *)
(* transport wrapper (src/src/Network.ts).                                 *)
(*                                                                         *)
(* Numbers.  The program computes in IEEE doubles; the model computes in   *)
(* fixed point.  Lengths, radii and item sizes are in 1/1000 world units,  *)
(* velocities in 1/1000 units per second, time in milliseconds, angles in  *)
(* milliradians, and the components of unit vectors and quaternions are    *)
(* scaled by 1000.  A product is divided back by 1000 and truncated        *)
(* toward zero, which plays the part of the rounding of a double.  NaN is  *)
(* a value outside every range; every arithmetic operator that can meet a  *)
(* value from the wire propagates it as IEEE arithmetic does.              *)
(*                                                                         *)
(* Not modelled: the scene graph's meshes and materials, trail particles,  *)
(* the pivot's wobble tilt, audio, camera, lights and DOM elements.  They  *)
(* are outputs of the state modelled here and feed nothing back into it.   *)
(***************************************************************************)
EXTENDS Integers, Sequences, FiniteSets, TLC

VARIABLES
    terrain,      \* which ground query is injected (Ball.setGroundQuery)
    ball,         \* each peer's Ball (Game.ball)
    loaded,       \* Game.loaded
    started,      \* Game.started
    network,      \* Game.network: whether it exists, Network.isHost, Network.connected
    remoteBall,   \* Game.remoteBall: whether it exists, and the RemoteBall
    proxies,      \* number of RemoteBall pivots in each peer's scene
    collectibles, \* Game.collectibles: size, collected, parent and position of each item
    npcs,         \* Game.npcs
    npcSyncTimer, \* Game.npcSyncTimer
    armed,        \* hostStart listeners registered on the start screen
    startTimers,  \* pending setTimeout(sendGameStart) callbacks
    chan,         \* messages in flight to each peer, per topic
    joins,        \* peer-join events delivered to each peer (bounded)
    ticks,        \* Game.update calls made by each peer (bounded)
    npcClock,     \* simulated time of each peer's frames since its last npc
                  \* message, and the number of npc messages it has sent
    steps,        \* operations applied to the ball alone, or messages taken
                  \* off the open wire (bounded)
    last          \* what the last operation was and what it did

gameVars == <<loaded, started, network, remoteBall, proxies, collectibles, npcs,
              npcSyncTimer, armed, startTimers, chan, joins, ticks, npcClock>>

vars == <<terrain, ball, loaded, started, network, remoteBall, proxies, collectibles,
          npcs, npcSyncTimer, armed, startTimers, chan, joins, ticks, npcClock, steps,
          last>>

---------------------------------------------------------------------------
(* Arithmetic *)

Abs(a) == IF a < 0 THEN -a ELSE a

Min(a, b) == IF a < b THEN a ELSE b

Max(a, b) == IF a > b THEN a ELSE b

\* Division truncating toward zero, b > 0.
Div(a, b) == IF a >= 0 THEN a \div b ELSE -((-a) \div b)

\* a * b of two fixed-point numbers.
Mul(a, b) == Div(a * b, 1000)

\* THREE.MathUtils.clamp
Clamp(v, lo, hi) == Max(lo, Min(hi, v))

RECURSIVE SqrtIter(_, _)
SqrtIter(n, x) ==
    LET y == (x + n \div x) \div 2
    IN  IF y >= x THEN x ELSE SqrtIter(n, y)

\* Math.sqrt on a non-negative integer: the integer part of the root.
ISqrt(n) == IF n < 2 THEN n ELSE SqrtIter(n, n)

\* Vector3.length() of a planar vector.
Len2(x, z) == ISqrt(x * x + z * z)

RECURSIVE ExpTerms(_, _, _, _)
ExpTerms(x, k, term, acc) ==
    IF term = 0 \/ k > 12 THEN acc
    ELSE LET t == Div(term * x, 1000 * k)
         IN  ExpTerms(x, k + 1, -t, acc - t)

\* Math.exp(-x) for x >= 0 in 1/1000, result in 1/1000 (alternating series
\* summed in 1/1000000, rounded to nearest).
ExpNeg(x) == Div(ExpTerms(x, 1, 1000000, 1000000) + 500, 1000)

\* Math.random() draws, in 1/1000.
Randoms == {250, 750}

\* Math.PI in milliradians.
PiM == 3142

RECURSIVE SinTerms(_, _, _, _)
SinTerms(a, k, term, acc) ==
    IF term = 0 \/ k > 6 THEN acc
    ELSE LET t == Div(Mul(Mul(term, a), a), (2 * k) * (2 * k + 1))
         IN  SinTerms(a, k + 1, -t, acc - t)

\* An angle brought into (-PiM, PiM].
WrapAngle(a) ==
    LET m == a % (2 * PiM)
    IN  IF m > PiM THEN m - 2 * PiM ELSE m

\* Math.sin of an angle in milliradians, result in 1/1000.
Sin(a) ==
    LET w == WrapAngle(a)
        r == IF w > PiM \div 2 THEN PiM - w
             ELSE IF w < -(PiM \div 2) THEN -PiM - w
             ELSE w
    IN  SinTerms(r, 1, r, r)

\* Math.cos
Cos(a) == Sin(a + PiM \div 2)

---------------------------------------------------------------------------
(* The ground query (GroundQuery in src/src/types.ts).  The ball only sees *)
(* the injected function, so the model offers three: the default flat      *)
(* field, a uniform ramp rising along x, and a tent-shaped hill standing   *)
(* at the place of the level's south-east hill, which reaches the wall.    *)

Terrains == {"flat", "ramp", "hill"}

\* Terrain.getHeight / DEFAULT_GROUND_QUERY.height
Height(t, x, z) ==
    CASE t = "flat" -> 0
      [] t = "ramp" -> Div(x, 4)
      [] t = "hill" -> Max(0, 3000 - Div(Abs(x - 30000) + Abs(z + 50000), 8))

\* Terrain.getNormalAt: symmetric differences with eps = 0.1, normalised.
\* The unnormalised vector (gx, 1, gz) is scaled by 20000 before the root.
NormalAt(t, x, z) ==
    LET a == Height(t, x - 100, z) - Height(t, x + 100, z)
        b == Height(t, x, z - 100) - Height(t, x, z + 100)
        l == ISqrt(10000 * (a * a + b * b + 40000))
    IN  [x |-> Div(100 * a * 1000, l),
         y |-> Div(20000 * 1000, l),
         z |-> Div(100 * b * 1000, l)]

\* Terrain.getGroundInfo
GroundQuery(t, x, z) == [height |-> Height(t, x, z), normal |-> NormalAt(t, x, z)]

---------------------------------------------------------------------------
(* Ball (src/src/Terrain.ts, lines 114-455) *)

\* private gravity = -25
Gravity == -25000

\* private baseSpeed = 40
BaseSpeed == 40000

\* private damping = 5
Damping == 5

\* private startRadius = 0.5 / radius = 0.5
StartRadius == 500

\* bounds = 48
Bounds == 48000

\* slopeMult = 2.5, in tenths
SlopeMultTenths == 25

\* sizeRatio > 3
HardStopRatio == 3

\* itemSize * 0.08, in hundredths
GrowthPercent == 8

\* Quaternion.multiplyQuaternions(a, b)
QuatMul(a, b) ==
    [x |-> Mul(a.x, b.w) + Mul(a.w, b.x) + Mul(a.y, b.z) - Mul(a.z, b.y),
     y |-> Mul(a.y, b.w) + Mul(a.w, b.y) + Mul(a.z, b.x) - Mul(a.x, b.z),
     z |-> Mul(a.z, b.w) + Mul(a.w, b.z) + Mul(a.x, b.y) - Mul(a.y, b.x),
     w |-> Mul(a.w, b.w) - Mul(a.x, b.x) - Mul(a.y, b.y) - Mul(a.z, b.z)]

\* Object3D.rotateOnWorldAxis(axis, angle): premultiply by the axis-angle
\* quaternion; the axis here is horizontal.
RotateOnWorldAxis(q, ax, az, angle) ==
    LET s == Sin(angle \div 2)
        c == Cos(angle \div 2)
    IN  QuatMul([x |-> Mul(ax, s), y |-> 0, z |-> Mul(az, s), w |-> c], q)

IdentityQuat == [x |-> 0, y |-> 0, z |-> 0, w |-> 1000]

\* The state of a Ball after its constructor.
NewBall ==
    [x |-> 0, y |-> StartRadius, z |-> 8000,
     vx |-> 0, vz |-> 0, yVelocity |-> 0, grounded |-> TRUE,
     radius |-> StartRadius, collectedCount |-> 0,
     wobbleDecay |-> 0, wobbleAngle |-> 0, quat |-> IdentityQuat]

\* Ball.update, lines 236-242: the player's push, weaker on a bigger ball.
ApplyInput(b, dir, delta) ==
    LET moveSpeed == Mul(BaseSpeed, ISqrt((StartRadius * 1000000) \div b.radius))
    IN  IF dir.x * dir.x + dir.z * dir.z > 1000
        THEN [b EXCEPT !.vx = @ + Div(Mul(dir.x, moveSpeed) * delta, 1000),
                       !.vz = @ + Div(Mul(dir.z, moveSpeed) * delta, 1000)]
        ELSE b

\* Ball.update, lines 246-255: the tangential part of gravity, grounded only.
ApplySlope(b, t, delta) ==
    LET n == GroundQuery(t, b.x, b.z).normal
        gDotN == Mul(Gravity, n.y)
        slopeX == 0 - Mul(n.x, gDotN)
        slopeZ == 0 - Mul(n.z, gDotN)
    IN  IF b.grounded
        THEN [b EXCEPT !.vx = @ + Div(slopeX * SlopeMultTenths * delta, 10000),
                       !.vz = @ + Div(slopeZ * SlopeMultTenths * delta, 10000)]
        ELSE b

\* Ball.update, lines 258-262: damping, then the planar move.
ApplyDampingAndMove(b, delta) ==
    LET dampFactor == ExpNeg(Damping * delta)
        vx == Mul(b.vx, dampFactor)
        vz == Mul(b.vz, dampFactor)
    IN  [b EXCEPT !.vx = vx, !.vz = vz,
                  !.x = @ + Div(vx * delta, 1000),
                  !.z = @ + Div(vz * delta, 1000)]

\* A vertical step that lets a grounded ball fall when the surface under it
\* has dropped, instead of snapping it down.
ResolveVerticalMutant(b, t, delta) ==
    IF b.grounded
    THEN IF b.y > Height(t, b.x, b.z) + b.radius
         THEN [b EXCEPT !.yVelocity = 0, !.grounded = FALSE]
         ELSE [b EXCEPT !.y = Height(t, b.x, b.z) + b.radius, !.yVelocity = 0]
    ELSE LET yv == b.yVelocity + Div(Gravity * delta, 1000)
             y == b.y + Div(yv * delta, 1000)
             groundY == Height(t, b.x, b.z) + b.radius
         IN  IF y <= groundY
             THEN IF yv < -1000
                  THEN [b EXCEPT !.y = groundY, !.yVelocity = Div((-yv) * 2, 10)]
                  ELSE [b EXCEPT !.y = groundY, !.yVelocity = 0, !.grounded = TRUE]
             ELSE [b EXCEPT !.y = y, !.yVelocity = yv]

\* Ball.update, lines 266-289: snap to the surface when grounded, else fall
\* and land (with a damped bounce when falling faster than 1).
ResolveVertical(b, t, delta) ==
    IF b.grounded
    THEN [b EXCEPT !.y = Height(t, b.x, b.z) + b.radius, !.yVelocity = 0]
    ELSE LET yv == b.yVelocity + Div(Gravity * delta, 1000)
             y == b.y + Div(yv * delta, 1000)
             groundY == Height(t, b.x, b.z) + b.radius
         IN  IF y <= groundY
             THEN IF yv < -1000
                  THEN [b EXCEPT !.y = groundY, !.yVelocity = Div((-yv) * 2, 10)]
                  ELSE [b EXCEPT !.y = groundY, !.yVelocity = 0, !.grounded = TRUE]
             ELSE [b EXCEPT !.y = y, !.yVelocity = yv]

\* Ball.update, lines 292-301: roll by arc length / radius about the axis
\* perpendicular to the velocity.
ApplyRolling(b, delta) ==
    LET velSpeed == Len2(b.vx, b.vz)
    IN  IF velSpeed > 10
        THEN [b EXCEPT !.quat = RotateOnWorldAxis(@,
                                    Div(b.vz * 1000, velSpeed),
                                    Div((-b.vx) * 1000, velSpeed),
                                    Div(velSpeed * delta, b.radius))]
        ELSE b

\* Ball.update, lines 304-308: the wobble's decay and phase.
ApplyWobble(b, delta) ==
    IF b.wobbleDecay > 0
    THEN [b EXCEPT !.wobbleDecay = Max(0, @ - delta * 4),
                   !.wobbleAngle = @ + delta * 20]
    ELSE b

\* A wall that also stops the ball: the velocity component into it is zeroed.
ClampToBoundsMutant(b) ==
    [b EXCEPT !.x = Clamp(@, -Bounds, Bounds), !.z = Clamp(@, -Bounds, Bounds),
              !.vx = IF Abs(b.x) > Bounds THEN 0 ELSE @,
              !.vz = IF Abs(b.z) > Bounds THEN 0 ELSE @]

\* Ball.update, lines 318-327: the hard wall.
ClampToBounds(b) ==
    [b EXCEPT !.x = Clamp(@, -Bounds, Bounds), !.z = Clamp(@, -Bounds, Bounds)]

\* Ball.update(direction, delta)
BallUpdate(b, t, dir, delta) ==
    ClampToBounds(
      ApplyWobble(
        ApplyRolling(
          ResolveVertical(
            ApplyDampingAndMove(ApplySlope(ApplyInput(b, dir, delta), t, delta), delta),
            t, delta),
          delta),
        delta))

\* grow shrinking the ball by the item's share instead of growing it.
BallGrowMutant(b, itemSize) ==
    LET r == b.radius - Div(itemSize * GrowthPercent, 100)
    IN  [b EXCEPT !.radius = r, !.y = Max(@, r)]

\* Ball.grow(itemSize)
BallGrow(b, itemSize) ==
    LET r == b.radius + Div(itemSize * GrowthPercent, 100)
    IN  [b EXCEPT !.radius = r, !.y = Max(@, r)]

\* An attachItem that counts the item twice.
BallAttachItemMutant(b, itemSize) ==
    [BallGrow(b, itemSize) EXCEPT !.collectedCount = @ + 2]

\* Ball.attachItem(itemMesh, worldPos, itemSize): grow and count.
BallAttachItem(b, itemSize) ==
    [BallGrow(b, itemSize) EXCEPT !.collectedCount = @ + 1]

\* The tier test with sizeRatio >= 3.
IsHardTierMutant(itemSize, radius) == itemSize >= HardStopRatio * (radius * 2)

\* Ball.stumble, line 404-406: the tier test sizeRatio > 3, cross-multiplied.
IsHardTier(itemSize, radius) == itemSize > HardStopRatio * (radius * 2)

\* Vector3.dot of the planar velocity with a direction.
Dot(vx, vz, d) == Div(vx * d.x + vz * d.z, 1000)

\* The hard branch with a bounce of 0.5 times the inward speed instead of
\* 1.5 times.
StumbleHardMutant(b, d, overlap) ==
    LET speed == Len2(b.vx, b.vz)
        dot == Dot(b.vx, b.vz, d)
        k == IF dot < 0 THEN Div((-dot) * 5, 10) ELSE 0
        hop == b.grounded /\ speed > 1000
    IN  [b EXCEPT !.vx = @ + Mul(d.x, k),
                  !.vz = @ + Mul(d.z, k),
                  !.x = @ + Mul(d.x, overlap + 10),
                  !.z = @ + Mul(d.z, overlap + 10),
                  !.wobbleDecay = Min(Div(speed * 3, 10), 1500),
                  !.wobbleAngle = 0,
                  !.yVelocity = IF hop THEN Min(Div(speed * 5, 10), 4000) ELSE @,
                  !.grounded = IF hop THEN FALSE ELSE @]

\* Ball.stumble, lines 406-420: the hard branch.
StumbleHard(b, d, overlap) ==
    LET speed == Len2(b.vx, b.vz)
        dot == Dot(b.vx, b.vz, d)
        k == IF dot < 0 THEN Div((-dot) * 15, 10) ELSE 0
        hop == b.grounded /\ speed > 1000
    IN  [b EXCEPT !.vx = @ + Mul(d.x, k),
                  !.vz = @ + Mul(d.z, k),
                  !.x = @ + Mul(d.x, overlap + 10),
                  !.z = @ + Mul(d.z, overlap + 10),
                  !.wobbleDecay = Min(Div(speed * 3, 10), 1500),
                  !.wobbleAngle = 0,
                  !.yVelocity = IF hop THEN Min(Div(speed * 5, 10), 4000) ELSE @,
                  !.grounded = IF hop THEN FALSE ELSE @]

\* The soft branch hopping only above speed 1, as the hard branch does.
StumbleSoftMutant(b, d, overlap, rAngle, rSide) ==
    LET speed == Len2(b.vx, b.vz)
        hopStrength == Min(Div(speed * 8, 10), 6000)
        sign == IF rSide > 500 THEN 1 ELSE -1
        s == Div(speed * 2, 10) * sign
        hop == b.grounded /\ speed > 1000
    IN  [b EXCEPT !.yVelocity = IF hop THEN hopStrength ELSE @,
                  !.grounded = IF hop THEN FALSE ELSE @,
                  !.vx = Div(@ * 6, 10) + Mul(-d.z, s),
                  !.vz = Div(@ * 6, 10) + Mul(d.x, s),
                  !.wobbleDecay = Min(Div(speed * 2, 10), 1000),
                  !.wobbleAngle = Mul(rAngle, PiM),
                  !.x = @ + Mul(d.x, Div(overlap, 2) + 10),
                  !.z = @ + Mul(d.z, Div(overlap, 2) + 10)]

\* Ball.stumble, lines 421-439: the soft branch.  rAngle and rSide are the
\* two Math.random() draws, in 1/1000.
StumbleSoft(b, d, overlap, rAngle, rSide) ==
    LET speed == Len2(b.vx, b.vz)
        hopStrength == Min(Div(speed * 8, 10), 6000)
        sign == IF rSide > 500 THEN 1 ELSE -1
        s == Div(speed * 2, 10) * sign
    IN  [b EXCEPT !.yVelocity = IF b.grounded THEN hopStrength ELSE @,
                  !.grounded = FALSE,
                  !.vx = Div(@ * 6, 10) + Mul(-d.z, s),
                  !.vz = Div(@ * 6, 10) + Mul(d.x, s),
                  !.wobbleDecay = Min(Div(speed * 2, 10), 1000),
                  !.wobbleAngle = Mul(rAngle, PiM),
                  !.x = @ + Mul(d.x, Div(overlap, 2) + 10),
                  !.z = @ + Mul(d.z, Div(overlap, 2) + 10)]

\* Ball.stumble taking the hard branch from a ratio of 3 on, not above 3.
BallStumbleMutant(b, d, overlap, itemSize, rAngle, rSide) ==
    IF itemSize >= HardStopRatio * (b.radius * 2)
    THEN StumbleHard(b, d, overlap)
    ELSE StumbleSoft(b, d, overlap, rAngle, rSide)

\* Ball.stumble(direction, overlap, itemSize)
BallStumble(b, d, overlap, itemSize, rAngle, rSide) ==
    IF IsHardTier(itemSize, b.radius)
    THEN StumbleHard(b, d, overlap)
    ELSE StumbleSoft(b, d, overlap, rAngle, rSide)

\* Ball.pushBack(direction, overlap)
BallPushBack(b, d, overlap) ==
    LET dot == Dot(b.vx, b.vz, d)
        k == IF dot < 0 THEN Div((-dot) * 15, 10) ELSE 0
    IN  [b EXCEPT !.vx = @ + Mul(d.x, k),
                  !.vz = @ + Mul(d.z, k),
                  !.x = @ + Mul(d.x, overlap + 10),
                  !.z = @ + Mul(d.z, overlap + 10)]

---------------------------------------------------------------------------
(* RemoteBall (src/src/RemoteBall.ts).  Its target comes off the wire, so  *)
(* its numbers may be NaN.                                                 *)

\* Number.NaN: a value outside every range the model computes in.
NaN == 0 - 999999999

IsNaN(v) == v = NaN

NAdd(a, b) == IF IsNaN(a) \/ IsNaN(b) THEN NaN ELSE a + b

NSub(a, b) == IF IsNaN(a) \/ IsNaN(b) THEN NaN ELSE a - b

NMul(a, b) == IF IsNaN(a) \/ IsNaN(b) THEN NaN ELSE Mul(a, b)

QuatHasNaN(q) == IsNaN(q.x) \/ IsNaN(q.y) \/ IsNaN(q.z) \/ IsNaN(q.w)

NaNQuat == [x |-> NaN, y |-> NaN, z |-> NaN, w |-> NaN]

\* Math.atan2(s, c) for s > 0, c >= 0, in milliradians: the arctangent of
\* the smaller ratio by z * (pi/4 + 0.273 * (1 - z)).
AtanUnit(z) == Mul(z, 785 + Mul(273, 1000 - z))

Atan2Pos(s, c) ==
    IF c >= s THEN AtanUnit(Div(s * 1000, c))
    ELSE PiM \div 2 - AtanUnit(Div(c * 1000, s))

QuatDot(a, b) == Mul(a.x, b.x) + Mul(a.y, b.y) + Mul(a.z, b.z) + Mul(a.w, b.w)

QuatNeg(q) == [x |-> -q.x, y |-> -q.y, z |-> -q.z, w |-> -q.w]

QuatMix(a, ra, b, rb) ==
    [x |-> Mul(a.x, ra) + Mul(b.x, rb), y |-> Mul(a.y, ra) + Mul(b.y, rb),
     z |-> Mul(a.z, ra) + Mul(b.z, rb), w |-> Mul(a.w, ra) + Mul(b.w, rb)]

QuatNormalize(q) ==
    LET l == ISqrt(q.x * q.x + q.y * q.y + q.z * q.z + q.w * q.w)
    IN  IF l = 0 THEN IdentityQuat
        ELSE [x |-> Div(q.x * 1000, l), y |-> Div(q.y * 1000, l),
              z |-> Div(q.z * 1000, l), w |-> Div(q.w * 1000, l)]

\* THREE.Quaternion.slerp(qb, t), t in 1/1000.  A NaN in either quaternion
\* fails every comparison and reaches every component through the ratios.
Slerp(qa, qb, t) ==
    IF t = 0 THEN qa
    ELSE IF t = 1000 THEN qb
    ELSE IF QuatHasNaN(qa) \/ QuatHasNaN(qb) THEN NaNQuat
    ELSE LET c0 == QuatDot(qa, qb)
             to == IF c0 < 0 THEN QuatNeg(qb) ELSE qb
             c == Abs(c0)
             sqrSin == 1000 - Mul(c, c)
             sinHalf == ISqrt(sqrSin * 1000)
             halfTheta == Atan2Pos(sinHalf, c)
         IN  IF c >= 1000 THEN qa
             ELSE IF sqrSin <= 0 \/ sinHalf = 0
                  THEN QuatNormalize(QuatMix(qa, 1000 - t, to, t))
             ELSE QuatMix(qa, Div(Sin(Mul(1000 - t, halfTheta)) * 1000, sinHalf),
                          to, Div(Sin(Mul(t, halfTheta)) * 1000, sinHalf))

\* The state of a RemoteBall after its constructor.
NewRemoteBall ==
    [x |-> 0, y |-> 500, z |-> 8000, quat |-> IdentityQuat, radius |-> 500,
     targetPos |-> [x |-> 0, y |-> 500, z |-> 8000],
     targetQuat |-> IdentityQuat, targetRadius |-> 500,
     velocity |-> [x |-> 0, z |-> 0]]

\* updateFromNetwork adding the snapshot's velocity to the one it holds.
UpdateFromNetworkMutant(rb, state) ==
    [rb EXCEPT !.targetPos = [x |-> state.x, y |-> state.y, z |-> state.z],
               !.targetRadius = state.r,
               !.targetQuat = [x |-> state.qx, y |-> state.qy, z |-> state.qz, w |-> state.qw],
               !.velocity = [x |-> NAdd(@.x, state.vx), z |-> NAdd(@.z, state.vz)]]

\* updateFromNetwork taking the position and radius at once and leaving the
\* rotation and velocity of the snapshot before.
UpdateFromNetworkTornMutant(rb, state) ==
    [rb EXCEPT !.targetPos = [x |-> state.x, y |-> state.y, z |-> state.z],
               !.targetRadius = state.r]

\* RemoteBall.updateFromNetwork(state)
UpdateFromNetwork(rb, state) ==
    [rb EXCEPT !.targetPos = [x |-> state.x, y |-> state.y, z |-> state.z],
               !.targetRadius = state.r,
               !.targetQuat = [x |-> state.qx, y |-> state.qy, z |-> state.qz, w |-> state.qw],
               !.velocity = [x |-> state.vx, z |-> state.vz]]

\* Vector3.lerp component: a += (b - a) * alpha
Lerp(a, b, alpha) == NAdd(a, NMul(NSub(b, a), alpha))

\* An update whose position factor is 25 times delta, uncapped.
RemoteBallUpdateMutant(rb, delta) ==
    LET px == NAdd(rb.targetPos.x, NMul(rb.velocity.x, delta))
        py == rb.targetPos.y
        pz == NAdd(rb.targetPos.z, NMul(rb.velocity.z, delta))
        alpha == delta * 25
    IN  [rb EXCEPT !.x = Lerp(@, px, alpha),
                   !.y = Lerp(@, py, alpha),
                   !.z = Lerp(@, pz, alpha),
                   !.quat = Slerp(@, rb.targetQuat, Min(delta * 15, 1000)),
                   !.radius = Lerp(@, rb.targetRadius, Min(delta * 10, 1000))]

\* RemoteBall.update(delta)
RemoteBallUpdate(rb, delta) ==
    LET px == NAdd(rb.targetPos.x, NMul(rb.velocity.x, delta))
        py == rb.targetPos.y
        pz == NAdd(rb.targetPos.z, NMul(rb.velocity.z, delta))
        alpha == Min(delta * 15, 1000)
    IN  [rb EXCEPT !.x = Lerp(@, px, alpha),
                   !.y = Lerp(@, py, alpha),
                   !.z = Lerp(@, pz, alpha),
                   !.quat = Slerp(@, rb.targetQuat, alpha),
                   !.radius = Lerp(@, rb.targetRadius, Min(delta * 10, 1000))]

---------------------------------------------------------------------------
(* Scene-graph positions.  An item's mesh hangs under the scene, under the *)
(* local ball's rotator or under the proxy's rotator; its position is      *)
(* local to that parent.                                                   *)

QuatConj(q) == [x |-> NSub(0, q.x), y |-> NSub(0, q.y), z |-> NSub(0, q.z), w |-> q.w]

\* Vector3.applyQuaternion(q)
ApplyQuat(v, q) ==
    LET ix == NSub(NAdd(NMul(q.w, v.x), NMul(q.y, v.z)), NMul(q.z, v.y))
        iy == NSub(NAdd(NMul(q.w, v.y), NMul(q.z, v.x)), NMul(q.x, v.z))
        iz == NSub(NAdd(NMul(q.w, v.z), NMul(q.x, v.y)), NMul(q.y, v.x))
        iw == NSub(NSub(NSub(0, NMul(q.x, v.x)), NMul(q.y, v.y)), NMul(q.z, v.z))
    IN  [x |-> NSub(NAdd(NSub(NMul(ix, q.w), NMul(iw, q.x)), NMul(iz, q.y)), NMul(iy, q.z)),
         y |-> NSub(NAdd(NSub(NMul(iy, q.w), NMul(iw, q.y)), NMul(ix, q.z)), NMul(iz, q.x)),
         z |-> NSub(NAdd(NSub(NMul(iz, q.w), NMul(iw, q.z)), NMul(iy, q.x)), NMul(ix, q.y))]

\* attachItem, both balls: worldPos relative to the pivot, turned into the
\* rotator's frame.
RelativePos(worldPos, pivot, q) ==
    ApplyQuat([x |-> NSub(worldPos.x, pivot.x), y |-> NSub(worldPos.y, pivot.y),
               z |-> NSub(worldPos.z, pivot.z)], QuatConj(q))

\* Object3D.getWorldPosition of an item's mesh; b is the local ball and rb
\* the proxy it may hang under.
WorldPos(item, b, rb) ==
    IF item.parent \in {"scene", "detached"} THEN item.pos
    ELSE LET host == IF item.parent = "ball" THEN b ELSE rb
             r == ApplyQuat(item.pos, host.quat)
         IN  [x |-> NAdd(host.x, r.x), y |-> NAdd(host.y, r.y), z |-> NAdd(host.z, r.z)]

---------------------------------------------------------------------------
(* NPC (src/unnamed/part_005).  The NPC's group is its collectible's mesh, *)
(* so its position is the position of that item.                           *)

\* pickTarget: bounds = 44
NpcBounds == 44000

\* Places pickTarget may draw.
NpcTargets == {[x |-> 3000, z |-> 9500]}

\* Math.atan2(y, x) in milliradians.
Atan2(y, x) ==
    IF x = 0 /\ y = 0 THEN 0
    ELSE LET base == Atan2Pos(Abs(y), Abs(x))
             a == IF x >= 0 THEN base ELSE PiM - base
         IN  IF y < 0 THEN -a ELSE a

\* NPC.pickTarget(): a random place and a random time to the next one.
PickTarget(n, target, r) ==
    [n EXCEPT !.tx = target.x, !.tz = target.z, !.retargetTimer = 3000 + Mul(r, 4000)]

PickTargets(n) == {PickTarget(n, target, r) : target \in NpcTargets, r \in Randoms}

\* NPC.update, lines 80-96: walk toward the target and turn to face it.
NpcWalk(n, pos, delta) ==
    LET dx == n.tx - pos.x
        dz == n.tz - pos.z
        dist == Len2(dx, dz)
        nx == Div(dx * 1000, dist)
        nz == Div(dz * 1000, dist)
        angleDiff == WrapAngle(Atan2(nx, nz) - n.facingAngle)
    IN  [npc |-> [n EXCEPT !.turnWobble = Min(@ + Div(Abs(angleDiff) * 5, 10), 1500),
                           !.facingAngle = @ + Mul(angleDiff, Min(delta * 4, 1000))],
         pos |-> [pos EXCEPT !.x = @ + Div(Mul(nx, n.speed) * delta, 1000),
                             !.z = @ + Div(Mul(nz, n.speed) * delta, 1000)]]

\* NPC.update, lines 101-128: clamp, follow the ground, decay, bob.
NpcSettle(w, t, delta) ==
    LET x == Clamp(w.pos.x, -NpcBounds, NpcBounds)
        z == Clamp(w.pos.z, -NpcBounds, NpcBounds)
        tw == Mul(w.npc.turnWobble, ExpNeg(5 * delta))
        phase == w.npc.bobPhase + Div(delta * (6000 + 4 * tw), 1000)
        bobY == Mul(Abs(Sin(phase)), 250 + Div(tw * 15, 100))
    IN  [npc |-> [w.npc EXCEPT !.turnWobble = tw, !.bobPhase = phase],
         pos |-> [x |-> x, y |-> Height(t, x, z) + bobY, z |-> z]]

\* NPC.update(delta): the set of outcomes over pickTarget's draws, each an
\* NPC with the position of its group.
NpcUpdate(n, pos, collected, t, delta) ==
    IF collected THEN {[npc |-> n, pos |-> pos]}
    ELSE IF n.networkControlled
    THEN {[npc |-> [n EXCEPT !.bobPhase = @ + delta * 6],
           pos |-> [pos EXCEPT !.y = n.networkBaseY]]}
    ELSE LET n1 == [n EXCEPT !.retargetTimer = @ - delta]
             retargeted == IF n1.retargetTimer <= 0 THEN PickTargets(n1) ELSE {n1}
             walked == UNION {IF Len2(m.tx - pos.x, m.tz - pos.z) > 1000
                              THEN {NpcWalk(m, pos, delta)}
                              ELSE {[npc |-> k, pos |-> pos] : k \in PickTargets(m)}
                              : m \in retargeted}
         IN  {NpcSettle(w, t, delta) : w \in walked}

\* NPC.setNetworkPosition(x, y, z, ry)
SetNetworkPosition(n, pos, s) ==
    [npc |-> [n EXCEPT !.networkControlled = TRUE, !.facingAngle = s.ry, !.networkBaseY = s.y],
     pos |-> [pos EXCEPT !.x = s.x, !.z = s.z]]

\* NPC.getNetworkState()
GetNetworkState(n, pos) == [x |-> pos.x, y |-> pos.y, z |-> pos.z, ry |-> n.facingAngle]

---------------------------------------------------------------------------
(* The two machines of a session: the one that creates the room and the   *)
(* one that joins it.                                                      *)

Peers == {"host", "guest"}

Other(p) == IF p = "host" THEN "guest" ELSE "host"

---------------------------------------------------------------------------
(* The level (createHillLevel): items stand at terrain height around the   *)
(* start, one in each response tier at the start radius, and the NPCs'     *)
(* collectibles follow the static items in Game.collectibles.              *)

LevelItemDefs ==
    << [size |-> 3000, x |-> 0, z |-> 6650],
       [size |-> 300, x |-> 250, z |-> 8000],
       [size |-> 4000, x |-> -1280, z |-> 8960] >>

LevelNpcDefs ==
    << [size |-> 1500, speed |-> 2000, x |-> 0, z |-> 9500] >>

NumItems == Len(LevelItemDefs) + Len(LevelNpcDefs)

ItemIds == 1..NumItems

NewCollectible(t, def) ==
    [size |-> def.size, collected |-> FALSE, parent |-> "scene",
     pos |-> [x |-> def.x, y |-> Height(t, def.x, def.z), z |-> def.z]]

\* collectibles after loadLevel
LevelCollectibles(t) ==
    [i \in ItemIds |->
        IF i <= Len(LevelItemDefs) THEN NewCollectible(t, LevelItemDefs[i])
        ELSE NewCollectible(t, LevelNpcDefs[i - Len(LevelItemDefs)])]

\* new NPC(model, size, name, speed, x, z): the constructor's pickTarget has
\* drawn a place 3 away, and its bob phase starts at 0.
NewNpc(k) ==
    [item |-> Len(LevelItemDefs) + k, speed |-> LevelNpcDefs[k].speed,
     tx |-> LevelNpcDefs[k].x + 3000, tz |-> LevelNpcDefs[k].z, retargetTimer |-> 5000,
     bobPhase |-> 0, facingAngle |-> 0, turnWobble |-> 0,
     networkControlled |-> FALSE, networkBaseY |-> 0]

LevelNpcs == [k \in 1..Len(LevelNpcDefs) |-> NewNpc(k)]

Topics == {"ball", "collect", "npc", "start"}

NoNetwork == [exists |-> FALSE, isHost |-> FALSE, connected |-> FALSE]

NoRemoteBall == [exists |-> FALSE, rb |-> NewRemoteBall]

ZeroDir == [x |-> 0, z |-> 0]

\* The record of the last operation: which, on which peer, and the parts
\* of the state before it that the properties compare with.
NoLast ==
    [op |-> "init", peer |-> "host", tier |-> "none", d |-> ZeroDir, pre |-> NewBall,
     size |-> 0, overlap |-> 0, delta |-> 0, hits |-> <<>>, sent |-> <<>>, msg |-> [id |-> 0],
     preCollected |-> [i \in ItemIds |-> FALSE], preStarted |-> FALSE,
     preItems |-> <<>>, preRemote |-> NoRemoteBall]

\* The state after both Game constructors, before either level has loaded.
InitGameVars ==
    /\ loaded = [p \in Peers |-> FALSE]
    /\ started = [p \in Peers |-> FALSE]
    /\ network = [p \in Peers |-> NoNetwork]
    /\ remoteBall = [p \in Peers |-> NoRemoteBall]
    /\ proxies = [p \in Peers |-> 0]
    /\ collectibles = [p \in Peers |-> <<>>]
    /\ npcs = [p \in Peers |-> <<>>]
    /\ npcSyncTimer = [p \in Peers |-> 0]
    /\ armed = [p \in Peers |-> 0]
    /\ startTimers = [p \in Peers |-> 0]
    /\ chan = [p \in Peers |-> [tp \in Topics |-> <<>>]]
    /\ joins = [p \in Peers |-> 0]
    /\ ticks = [p \in Peers |-> 0]
    /\ npcClock = [p \in Peers |-> [elapsed |-> 0, sends |-> 0]]

---------------------------------------------------------------------------
(* SpecBall: one Ball driven through its public methods with every         *)
(* argument Game can pass, from any in-bounds state.                       *)

\* The longest run of operations explored.
MaxSteps == 2

\* Frame deltas in ms: a 60 Hz frame and the cap of Game.loop (0.05 s).
Deltas == {16, 50}

\* Exact unit vectors: the axes and the 3-4-5 directions.
UnitDirs ==
    {[x |-> 1000, z |-> 0], [x |-> -1000, z |-> 0], [x |-> 0, z |-> -1000],
     [x |-> 600, z |-> 800], [x |-> -800, z |-> 600]}

\* Input directions of Game.update: no input or a unit vector.
InputDirs == {ZeroDir, [x |-> 1000, z |-> 0], [x |-> 0, z |-> -1000], [x |-> -800, z |-> 600]}

\* Sizes of items that are too big to collect at the radii explored: one in
\* each stumble tier, and the 3.0 of the level's big tree at radius 0.5.
StumbleSizes == {1500, 3000, 4000}

\* Sizes of items small enough to collect (size < radius * 1.5).
CollectSizes == {150, 300}

Overlaps == {50, 400}

InitPositions == {[x |-> 0, z |-> 8000], [x |-> 47950, z |-> -47600]}

InitVelocities == {[x |-> 0, z |-> 0], [x |-> 4000, z |-> 0], [x |-> -3000, z |-> -4000]}

\* grounded, or airborne 0.3 above the surface rising or falling
InitVertical == {[grounded |-> TRUE, up |-> 0, yv |-> 0],
                 [grounded |-> FALSE, up |-> 300, yv |-> 2000],
                 [grounded |-> FALSE, up |-> 300, yv |-> -3000]}

InitRadii == {StartRadius, StartRadius + 24}

BallAt(t, pos, vel, vert, r) ==
    [NewBall EXCEPT !.x = pos.x, !.z = pos.z,
                    !.y = Height(t, pos.x, pos.z) + r + vert.up,
                    !.vx = vel.x, !.vz = vel.z,
                    !.yVelocity = vert.yv, !.grounded = vert.grounded,
                    !.radius = r,
                    !.collectedCount = IF r = StartRadius THEN 0 ELSE 1]

InitBall ==
    /\ terrain \in Terrains
    /\ \E pos \in InitPositions, vel \in InitVelocities, vert \in InitVertical, r \in InitRadii :
          ball = [p \in Peers |-> IF p = "host" THEN BallAt(terrain, pos, vel, vert, r) ELSE NewBall]
    /\ steps = 0
    /\ last = NoLast
    /\ InitGameVars

\* ball.update(direction, delta)
UpdateStep ==
    /\ steps < MaxSteps
    /\ \E dir \in InputDirs, delta \in Deltas :
          /\ ball' = [ball EXCEPT !["host"] = BallUpdate(@, terrain, dir, delta)]
          /\ last' = [NoLast EXCEPT !.op = "update", !.d = dir, !.delta = delta,
                                    !.pre = ball["host"]]
    /\ steps' = steps + 1
    /\ UNCHANGED <<terrain, gameVars>>

\* ball.stumble(pushDir, overlap, item.size), called for an item in contact
\* that is too big to collect; pushDir is a unit vector, or zero when the
\* ball is exactly above the item (Vector3.normalize of a zero vector).
StumbleStep ==
    /\ steps < MaxSteps
    /\ \E d \in UnitDirs \cup {ZeroDir}, overlap \in Overlaps, size \in StumbleSizes :
          /\ ~(size * 10 < ball["host"].radius * 15)
          /\ IF IsHardTier(size, ball["host"].radius)
             THEN /\ ball' = [ball EXCEPT !["host"] = BallStumble(@, d, overlap, size, 0, 0)]
                  /\ last' = [NoLast EXCEPT !.op = "stumble", !.tier = "hard", !.d = d,
                                            !.size = size, !.overlap = overlap,
                                            !.pre = ball["host"]]
             ELSE \E rAngle \in Randoms, rSide \in Randoms :
                  /\ ball' = [ball EXCEPT !["host"] = BallStumble(@, d, overlap, size, rAngle, rSide)]
                  /\ last' = [NoLast EXCEPT !.op = "stumble", !.tier = "soft", !.d = d,
                                            !.size = size, !.overlap = overlap,
                                            !.pre = ball["host"]]
    /\ steps' = steps + 1
    /\ UNCHANGED <<terrain, gameVars>>

\* ball.attachItem(mesh, pos, item.size), called for a collectable item
AttachStep ==
    /\ steps < MaxSteps
    /\ \E size \in CollectSizes :
          /\ size * 10 < ball["host"].radius * 15
          /\ ball' = [ball EXCEPT !["host"] = BallAttachItem(@, size)]
          /\ last' = [NoLast EXCEPT !.op = "attachItem", !.tier = "collect", !.d = ZeroDir, !.pre = ball["host"]]
    /\ steps' = steps + 1
    /\ UNCHANGED <<terrain, gameVars>>

\* ball.pushBack(direction, overlap)
PushBackStep ==
    /\ steps < MaxSteps
    /\ \E d \in UnitDirs, overlap \in Overlaps :
          /\ ball' = [ball EXCEPT !["host"] = BallPushBack(@, d, overlap)]
          /\ last' = [NoLast EXCEPT !.op = "pushBack", !.tier = "none", !.d = d, !.pre = ball["host"]]
    /\ steps' = steps + 1
    /\ UNCHANGED <<terrain, gameVars>>

NextBall == UpdateStep \/ StumbleStep \/ AttachStep \/ PushBackStep

SpecBall == InitBall /\ [][NextBall]_vars

---------------------------------------------------------------------------
(* Game (src/src/Game.ts) *)

\* Longest queue of undelivered messages per peer and topic; a message
\* sent to a full queue is lost.
MaxQueue == 1

\* Game.update calls explored in a session, over both peers.
MaxTicks == 2

\* Peer-join events explored per peer.
MaxJoins == 1

\* Frame deltas of the session: the cap of Game.loop.
GameDeltas == {50}

\* Input directions of the session: none, and toward the second item.
GameDirs == {ZeroDir, [x |-> 0, z |-> -1000]}

\* The pairs of Math.random() draws of a soft stumble in the session.
GameDraws == {<<250, 250>>, <<750, 750>>}

\* checkCollisions, line 388
MyRole(net) == IF net.isHost THEN "host" ELSE "guest"

\* item.size < this.ball.radius * 1.5
IsCollectable(size, radius) == size * 10 < radius * 15

\* this.ball.radius + item.size * 0.3
TouchDist(radius, size) == radius + Div(size * 3, 10)

\* Vector3.distanceTo
Dist3(a, b) ==
    ISqrt((a.x - b.x) * (a.x - b.x) + (a.y - b.y) * (a.y - b.y) + (a.z - b.z) * (a.z - b.z))

\* pushDir: ballPos - itemPos, flattened and normalised (a zero vector
\* stays zero under Vector3.normalize).
PushDir(ballPos, itemPos) ==
    LET dx == ballPos.x - itemPos.x
        dz == ballPos.z - itemPos.z
        l == Len2(dx, dz)
    IN  IF l = 0 THEN ZeroDir ELSE [x |-> Div(dx * 1000, l), z |-> Div(dz * 1000, l)]

\* A collect that sends its event twice.
CollectItemMutant(g, i, net) ==
    LET item == g.items[i]
        rel == RelativePos(item.pos, g.ball, g.ball.quat)
        event == [id |-> i, by |-> MyRole(net)]
    IN  [g EXCEPT !.items[i].collected = TRUE,
                  !.items[i].parent = "ball",
                  !.items[i].pos = rel,
                  !.ball = BallAttachItem(@, item.size),
                  !.sent = IF net.exists /\ net.connected
                           THEN Append(Append(@, event), event)
                           ELSE @,
                  !.hits = Append(@, [id |-> i, tier |-> "collect", size |-> item.size,
                                      radius |-> g.ball.radius, d |-> ZeroDir,
                                      overlap |-> 0, pre |-> g.ball])]

\* checkCollisions, lines 401-411: collect item i.
CollectItem(g, i, net) ==
    LET item == g.items[i]
        rel == RelativePos(item.pos, g.ball, g.ball.quat)
    IN  [g EXCEPT !.items[i].collected = TRUE,
                  !.items[i].parent = "ball",
                  !.items[i].pos = rel,
                  !.ball = BallAttachItem(@, item.size),
                  !.sent = IF net.exists /\ net.connected
                           THEN Append(@, [id |-> i, by |-> MyRole(net)])
                           ELSE @,
                  !.hits = Append(@, [id |-> i, tier |-> "collect", size |-> item.size,
                                      radius |-> g.ball.radius, d |-> ZeroDir,
                                      overlap |-> 0, pre |-> g.ball])]

\* checkCollisions, lines 413-418: stumble over item i; the set of
\* outcomes over the soft branch's two random draws.
StumbleOnItem(g, i, ballPos, dist) ==
    LET item == g.items[i]
        pushDir == PushDir(ballPos, item.pos)
        overlap == TouchDist(g.ball.radius, item.size) - dist
        hard == IsHardTier(item.size, g.ball.radius)
        hit == [id |-> i, tier |-> IF hard THEN "hard" ELSE "soft", size |-> item.size,
                radius |-> g.ball.radius, d |-> pushDir, overlap |-> overlap, pre |-> g.ball]
    IN  {[g EXCEPT !.ball = BallStumble(@, pushDir, overlap, item.size, r[1], r[2]),
                   !.hits = Append(@, hit)]
         : r \in (IF hard THEN {<<0, 0>>} ELSE GameDraws)}

\* The loop body without the test of the collected flag.
CheckItemMutant(g, i, ballPos, net) ==
    LET item == g.items[i]
        dist == Dist3(ballPos, item.pos)
    IN  IF dist < TouchDist(g.ball.radius, item.size)
        THEN IF IsCollectable(item.size, g.ball.radius)
             THEN {CollectItem(g, i, net)}
             ELSE StumbleOnItem(g, i, ballPos, dist)
        ELSE {g}

\* checkCollisions, lines 391-420: the loop body for item i.
CheckItem(g, i, ballPos, net) ==
    LET item == g.items[i]
        dist == Dist3(ballPos, item.pos)
    IN  IF item.collected THEN {g}
        ELSE IF dist < TouchDist(g.ball.radius, item.size)
        THEN IF IsCollectable(item.size, g.ball.radius)
             THEN {CollectItem(g, i, net)}
             ELSE StumbleOnItem(g, i, ballPos, dist)
        ELSE {g}

RECURSIVE CheckFrom(_, _, _, _)
CheckFrom(g, i, ballPos, net) ==
    IF i > Len(g.items) THEN {g}
    ELSE UNION {CheckFrom(h, i + 1, ballPos, net) : h \in CheckItem(g, i, ballPos, net)}

\* Game.checkCollisions(): ballPos is read once, before the loop.
CheckCollisions(b, items, net) ==
    CheckFrom([ball |-> b, items |-> items, sent |-> <<>>, hits |-> <<>>], 1,
              [x |-> b.x, y |-> b.y, z |-> b.z], net)

RECURSIVE NpcsFrom(_, _, _, _, _)
NpcsFrom(ns, items, k, t, delta) ==
    IF k > Len(ns) THEN {[npcs |-> ns, items |-> items]}
    ELSE UNION {NpcsFrom([ns EXCEPT ![k] = w.npc],
                         [items EXCEPT ![ns[k].item].pos = w.pos], k + 1, t, delta)
                : w \in NpcUpdate(ns[k], items[ns[k].item].pos,
                                  items[ns[k].item].collected, t, delta)}

\* Game.update, lines 330-332: every NPC's update.
UpdateNpcs(ns, items, t, delta) == NpcsFrom(ns, items, 1, t, delta)

\* A message put on a queue, or lost when the queue is full.
Enqueue(q, m) == IF Len(q) < MaxQueue THEN Append(q, m) ELSE q

RECURSIVE EnqueueAll(_, _)
EnqueueAll(q, ms) == IF ms = <<>> THEN q ELSE EnqueueAll(Enqueue(q, Head(ms)), Tail(ms))

\* Network.send*: trystero hands the messages to the peer in the room, if
\* there is one.
SendAll(ch, from, topic, ms) ==
    IF network[Other(from)].exists
    THEN [ch EXCEPT ![Other(from)][topic] = EnqueueAll(@, ms)]
    ELSE ch

\* loadLevel() resolves: the level is in place and the UI is shown.
LoadLevel(p) ==
    /\ ~loaded[p]
    /\ loaded' = [loaded EXCEPT ![p] = TRUE]
    /\ collectibles' = [collectibles EXCEPT ![p] = LevelCollectibles(terrain)]
    /\ npcs' = [npcs EXCEPT ![p] = LevelNpcs]
    /\ last' = [NoLast EXCEPT !.op = "loadLevel", !.peer = p]
    /\ UNCHANGED <<terrain, npcClock, ball, started, network, remoteBall, proxies, npcSyncTimer,
                   armed, startTimers, chan, joins, ticks, steps>>

\* soloStart, lines 91-95; the button is on the start screen, which is
\* hidden once the game has started, and is hidden by create and join.
SoloStart(p) ==
    /\ loaded[p] /\ ~started[p] /\ ~network[p].exists
    /\ started' = [started EXCEPT ![p] = TRUE]
    /\ last' = [NoLast EXCEPT !.op = "soloStart", !.peer = p]
    /\ UNCHANGED <<terrain, npcClock, ball, loaded, network, remoteBall, proxies, collectibles, npcs,
                   npcSyncTimer, armed, startTimers, chan, joins, ticks, steps>>

\* The Create Room button (lines 100-118) on the creating machine, the
\* Join Room button (lines 121-141) on the other: Network.createRoom /
\* Network.joinRoom.
OpenRoom(p) ==
    /\ loaded[p] /\ ~started[p] /\ ~network[p].exists
    /\ network' = [network EXCEPT ![p] = [exists |-> TRUE, isHost |-> (p = "host"),
                                          connected |-> FALSE]]
    /\ last' = [NoLast EXCEPT !.op = "openRoom", !.peer = p]
    /\ UNCHANGED <<terrain, npcClock, ball, loaded, started, remoteBall, proxies, collectibles, npcs,
                   npcSyncTimer, armed, startTimers, chan, joins, ticks, steps>>

\* room.onPeerJoin (Network.ts 81-84) and Game's onPeerJoin (151-178).
PeerJoin(p) ==
    /\ network[p].exists /\ network[Other(p)].exists
    /\ ~network[p].connected
    /\ joins[p] < MaxJoins
    /\ joins' = [joins EXCEPT ![p] = @ + 1]
    /\ network' = [network EXCEPT ![p].connected = TRUE]
    /\ remoteBall' = [remoteBall EXCEPT ![p] = [exists |-> TRUE, rb |-> NewRemoteBall]]
    /\ proxies' = [proxies EXCEPT ![p] = @ + 1]
    /\ armed' = [armed EXCEPT ![p] = IF network[p].isHost THEN @ + 1 ELSE @]
    /\ last' = [NoLast EXCEPT !.op = "peerJoin", !.peer = p]
    /\ UNCHANGED <<terrain, npcClock, ball, loaded, started, collectibles, npcs, npcSyncTimer,
                   startTimers, chan, ticks, steps>>

\* The items that hung under a destroyed proxy stay where it last showed
\* them.
Detach(items, b, rb) ==
    [i \in DOMAIN items |->
        IF items[i].parent = "remoteBall"
        THEN [items[i] EXCEPT !.parent = "detached", !.pos = WorldPos(items[i], b, rb)]
        ELSE items[i]]

\* A peer-leave handler that only clears connected and keeps the proxy.
PeerLeaveMutant(p) ==
    /\ network[p].exists /\ network[p].connected
    /\ network' = [network EXCEPT ![p].connected = FALSE]
    /\ last' = [NoLast EXCEPT !.op = "peerLeave", !.peer = p]
    /\ UNCHANGED <<terrain, npcClock, ball, loaded, started, remoteBall, proxies, collectibles, npcs,
                   npcSyncTimer, armed, startTimers, chan, joins, ticks, steps>>

\* room.onPeerLeave (Network.ts 86-89) and Game's onPeerLeave (180-186).
PeerLeave(p) ==
    /\ network[p].exists /\ network[p].connected
    /\ network' = [network EXCEPT ![p].connected = FALSE]
    /\ remoteBall' = [remoteBall EXCEPT ![p] = NoRemoteBall]
    /\ proxies' = [proxies EXCEPT ![p] = IF remoteBall[p].exists THEN @ - 1 ELSE @]
    /\ collectibles' = [collectibles EXCEPT ![p] = Detach(@, ball[p], remoteBall[p].rb)]
    /\ last' = [NoLast EXCEPT !.op = "peerLeave", !.peer = p]
    /\ UNCHANGED <<terrain, npcClock, ball, loaded, started, npcs, npcSyncTimer, armed,
                   startTimers, chan, joins, ticks, steps>>

\* hostStart, lines 161-171: every listener registered on the start screen
\* runs on the tap, sends the start signal and sets two timers to repeat it.
HostStart(p) ==
    /\ armed[p] > 0 /\ ~started[p]
    /\ started' = [started EXCEPT ![p] = TRUE]
    /\ chan' = SendAll(chan, p, "start", [k \in 1..armed[p] |-> [t |-> "s"]])
    /\ startTimers' = [startTimers EXCEPT ![p] = @ + 2 * armed[p]]
    /\ armed' = [armed EXCEPT ![p] = 0]
    /\ last' = [NoLast EXCEPT !.op = "hostStart", !.peer = p,
                              !.sent = [k \in 1..armed[p] |-> [t |-> "s"]]]
    /\ UNCHANGED <<terrain, npcClock, ball, loaded, network, remoteBall, proxies, collectibles, npcs,
                   npcSyncTimer, joins, ticks, steps>>

\* setTimeout(() => this.network?.sendGameStart(), ...), lines 167-168
StartTimer(p) ==
    /\ startTimers[p] > 0
    /\ startTimers' = [startTimers EXCEPT ![p] = @ - 1]
    /\ chan' = SendAll(chan, p, "start", << [t |-> "s"] >>)
    /\ last' = [NoLast EXCEPT !.op = "startTimer", !.peer = p, !.sent = << [t |-> "s"] >>]
    /\ UNCHANGED <<terrain, npcClock, ball, loaded, started, network, remoteBall, proxies,
                   collectibles, npcs, npcSyncTimer, armed, joins, ticks, steps>>

\* The collected flags of a peer, by item id.
Collected(p) ==
    [i \in ItemIds |-> IF i \in DOMAIN collectibles[p] THEN collectibles[p][i].collected
                       ELSE FALSE]

\* A snapshot that carries the radius the ball was built with.
BallStateMutant(b) ==
    [x |-> b.x, y |-> b.y, z |-> b.z, r |-> StartRadius,
     qx |-> b.quat.x, qy |-> b.quat.y, qz |-> b.quat.z, qw |-> b.quat.w,
     vx |-> b.vx, vz |-> b.vz]

\* syncNetwork, lines 363-373: the snapshot of the local ball.
BallState(b) ==
    [x |-> b.x, y |-> b.y, z |-> b.z, r |-> b.radius,
     qx |-> b.quat.x, qy |-> b.quat.y, qz |-> b.quat.z, qw |-> b.quat.w,
     vx |-> b.vx, vz |-> b.vz]

\* syncNetwork, line 380: this.npcs.map((npc) => npc.getNetworkState())
NpcState(ns, items) ==
    [npcs |-> [k \in DOMAIN ns |-> GetNetworkState(ns[k], items[ns[k].item].pos)]]

\* A throttle that sends every 0.05 s.
NpcSyncMutant(timer, delta) ==
    LET t == timer + delta
    IN  [timer |-> IF t >= 50 THEN 0 ELSE t, send |-> t >= 50]

\* syncNetwork, lines 376-382: the host's npc throttle.
NpcSync(timer, delta) ==
    LET t == timer + delta
    IN  [timer |-> IF t >= 100 THEN 0 ELSE t, send |-> t >= 100]

\* One frame with the game started: Game.update(delta), from the input to
\* syncNetwork, in a frame of one of the given inputs and frame times.
Frame(p, dirs, deltas) ==
    /\ started[p]
    /\ \E dir \in dirs, delta \in deltas :
       \E nu \in UpdateNpcs(npcs[p], collectibles[p], terrain, delta) :
       \E g \in CheckCollisions(BallUpdate(ball[p], terrain, dir, delta), nu.items, network[p]) :
          LET connected == network[p].exists /\ network[p].connected
              sync == IF connected /\ network[p].isHost
                      THEN NpcSync(npcSyncTimer[p], delta)
                      ELSE [timer |-> npcSyncTimer[p], send |-> FALSE]
              ballMsgs == IF connected THEN << BallState(g.ball) >> ELSE <<>>
              npcMsgs == IF sync.send THEN << NpcState(nu.npcs, g.items) >> ELSE <<>>
          IN  /\ ball' = [ball EXCEPT ![p] = g.ball]
              /\ npcs' = [npcs EXCEPT ![p] = nu.npcs]
              /\ collectibles' = [collectibles EXCEPT ![p] = g.items]
              /\ remoteBall' = [remoteBall EXCEPT ![p].rb =
                                   IF remoteBall[p].exists THEN RemoteBallUpdate(@, delta) ELSE @]
              /\ npcSyncTimer' = [npcSyncTimer EXCEPT ![p] = sync.timer]
              /\ npcClock' = [npcClock EXCEPT ![p] =
                                 IF sync.send THEN [elapsed |-> 0, sends |-> @.sends + 1]
                                 ELSE [@ EXCEPT !.elapsed = @ + delta]]
              /\ chan' = SendAll(SendAll(SendAll(chan, p, "collect", g.sent),
                                         p, "ball", ballMsgs), p, "npc", npcMsgs)
              /\ last' = [NoLast EXCEPT !.op = "tick", !.peer = p, !.d = dir, !.pre = ball[p],
                                        !.delta = delta, !.hits = g.hits,
                                        !.preItems = collectibles[p],
                                        !.preRemote = remoteBall[p],
                                        !.sent = g.sent \o ballMsgs \o npcMsgs,
                                        !.preCollected = Collected(p),
                                        !.preStarted = started[p]]
    /\ ticks' = [ticks EXCEPT ![p] = @ + 1]
    /\ UNCHANGED <<terrain, loaded, started, network, proxies, armed, startTimers, joins, steps>>

\* Game.loop, lines 291-296, in a session: one frame with the game started,
\* under the session's inputs and frame times.
Tick(p) ==
    /\ ticks["host"] + ticks["guest"] < MaxTicks
    /\ Frame(p, GameDirs, GameDeltas)

\* The onBallState callback starting the game on either role.
OnBallStateMutant(p, m) ==
    /\ remoteBall' = [remoteBall EXCEPT ![p].rb =
                         IF remoteBall[p].exists THEN UpdateFromNetwork(@, m) ELSE @]
    /\ started' = [started EXCEPT ![p] = IF ~started[p] THEN TRUE ELSE @]
    /\ UNCHANGED <<terrain, npcClock, ball, loaded, network, proxies, collectibles, npcs, npcSyncTimer,
                   armed, startTimers, joins, ticks>>

\* The onBallState callback, lines 188-197.
OnBallState(p, m) ==
    /\ remoteBall' = [remoteBall EXCEPT ![p].rb =
                         IF remoteBall[p].exists THEN UpdateFromNetwork(@, m) ELSE @]
    /\ started' = [started EXCEPT ![p] = IF ~started[p] /\ ~network[p].isHost THEN TRUE ELSE @]
    /\ UNCHANGED <<terrain, npcClock, ball, loaded, network, proxies, collectibles, npcs, npcSyncTimer,
                   armed, startTimers, joins, ticks>>

\* handleRemoteCollect leaving alone an item that is already collected.
HandleRemoteCollectMutant(p, event) ==
    IF event.id \notin DOMAIN collectibles[p] THEN collectibles[p]
    ELSE IF event.by = MyRole(network[p]) THEN collectibles[p]
    ELSE IF collectibles[p][event.id].collected THEN collectibles[p]
    ELSE LET item == collectibles[p][event.id]
             rb == remoteBall[p].rb
             itemPos == WorldPos(item, ball[p], rb)
         IN  IF remoteBall[p].exists
             THEN [collectibles[p] EXCEPT ![event.id] =
                      [item EXCEPT !.collected = TRUE, !.parent = "remoteBall",
                                   !.pos = RelativePos(itemPos, rb, rb.quat)]]
             ELSE [collectibles[p] EXCEPT ![event.id].collected = TRUE]

\* handleRemoteCollect, lines 220-244, on the items of peer p.
HandleRemoteCollect(p, event) ==
    IF event.id \notin DOMAIN collectibles[p] THEN collectibles[p]
    ELSE IF event.by = MyRole(network[p]) THEN collectibles[p]
    ELSE LET item == collectibles[p][event.id]
             rb == remoteBall[p].rb
             itemPos == WorldPos(item, ball[p], rb)
         IN  IF remoteBall[p].exists
             THEN [collectibles[p] EXCEPT ![event.id] =
                      [item EXCEPT !.collected = TRUE, !.parent = "remoteBall",
                                   !.pos = RelativePos(itemPos, rb, rb.quat)]]
             ELSE [collectibles[p] EXCEPT ![event.id].collected = TRUE]

\* A collect handler that also grows the receiver's own ball by the item.
OnCollectEventMutant(p, event) ==
    /\ collectibles' = [collectibles EXCEPT ![p] = HandleRemoteCollect(p, event)]
    /\ ball' = [ball EXCEPT ![p] =
                   IF event.id \in DOMAIN collectibles[p] /\ event.by # MyRole(network[p])
                   THEN BallAttachItem(@, collectibles[p][event.id].size) ELSE @]
    /\ UNCHANGED <<terrain, npcClock, loaded, started, network, remoteBall, proxies, npcs,
                   npcSyncTimer, armed, startTimers, joins, ticks>>

\* The onCollectEvent callback, lines 199-201.
OnCollectEvent(p, event) ==
    /\ collectibles' = [collectibles EXCEPT ![p] = HandleRemoteCollect(p, event)]
    /\ UNCHANGED <<terrain, npcClock, ball, loaded, started, network, remoteBall, proxies, npcs,
                   npcSyncTimer, armed, startTimers, joins, ticks>>

\* onNPCState, lines 205-210: the loop over the received NPC states.
ApplyNpcState(ns, items, state) ==
    LET n == Min(Len(state.npcs), Len(ns))
        set(k) == SetNetworkPosition(ns[k], items[ns[k].item].pos, state.npcs[k])
        moved == {ns[k].item : k \in 1..n}
        of(i) == CHOOSE k \in 1..n : ns[k].item = i
    IN  [npcs |-> [k \in DOMAIN ns |-> IF k <= n THEN set(k).npc ELSE ns[k]],
         items |-> [i \in DOMAIN items |->
                       IF i \in moved THEN [items[i] EXCEPT !.pos = set(of(i)).pos]
                       ELSE items[i]]]

\* An npc handler without the isHost test.
OnNPCStateMutant(p, state) ==
    /\ LET r == ApplyNpcState(npcs[p], collectibles[p], state)
       IN  /\ npcs' = [npcs EXCEPT ![p] = r.npcs]
           /\ collectibles' = [collectibles EXCEPT ![p] = r.items]
    /\ UNCHANGED <<terrain, npcClock, ball, loaded, started, network, remoteBall, proxies,
                   npcSyncTimer, armed, startTimers, joins, ticks>>

\* The onNPCState callback, lines 203-211.
OnNPCState(p, state) ==
    /\ LET r == IF network[p].isHost THEN [npcs |-> npcs[p], items |-> collectibles[p]]
                ELSE ApplyNpcState(npcs[p], collectibles[p], state)
       IN  /\ npcs' = [npcs EXCEPT ![p] = r.npcs]
           /\ collectibles' = [collectibles EXCEPT ![p] = r.items]
    /\ UNCHANGED <<terrain, npcClock, ball, loaded, started, network, remoteBall, proxies,
                   npcSyncTimer, armed, startTimers, joins, ticks>>

\* A start handler that flips the flag instead of setting it.
OnGameStartMutant(p) ==
    /\ started' = [started EXCEPT ![p] = ~started[p]]
    /\ UNCHANGED <<terrain, npcClock, ball, loaded, network, remoteBall, proxies, collectibles, npcs,
                   npcSyncTimer, armed, startTimers, joins, ticks>>

\* The onGameStart callback, lines 213-217.
OnGameStart(p) ==
    /\ started' = [started EXCEPT ![p] = TRUE]
    /\ UNCHANGED <<terrain, npcClock, ball, loaded, network, remoteBall, proxies, collectibles, npcs,
                   npcSyncTimer, armed, startTimers, joins, ticks>>

---------------------------------------------------------------------------
(* Spec: the session of two machines.  Messages travel on one bounded      *)
(* queue per receiver and message type and may be lost on the way.         *)

\* A message m handed to one of p's callbacks.
Handled(p, op, m) ==
    last' = [NoLast EXCEPT !.op = op, !.peer = p, !.msg = m, !.pre = ball[p],
                           !.preCollected = Collected(p), !.preStarted = started[p],
                           !.preItems = collectibles[p], !.preRemote = remoteBall[p]]

\* A received message: the head of a queue, handed to its callback.
Receive(p, topic, op) ==
    /\ network[p].exists
    /\ chan[p][topic] # <<>>
    /\ chan' = [chan EXCEPT ![p][topic] = Tail(@)]
    /\ Handled(p, op, Head(chan[p][topic]))
    /\ UNCHANGED steps

DeliverBall(p) == Receive(p, "ball", "onBallState") /\ OnBallState(p, Head(chan[p]["ball"]))

DeliverCollect(p) ==
    Receive(p, "collect", "onCollectEvent") /\ OnCollectEvent(p, Head(chan[p]["collect"]))

DeliverNpc(p) == Receive(p, "npc", "onNPCState") /\ OnNPCState(p, Head(chan[p]["npc"]))

DeliverStart(p) == Receive(p, "start", "onGameStart") /\ OnGameStart(p)

\* A message dropped by the data channel.
Lose(p) ==
    /\ \E topic \in Topics :
          /\ chan[p][topic] # <<>>
          /\ chan' = [chan EXCEPT ![p][topic] = Tail(@)]
    /\ last' = [NoLast EXCEPT !.op = "lose", !.peer = p]
    /\ UNCHANGED <<terrain, npcClock, ball, loaded, started, network, remoteBall, proxies,
                   collectibles, npcs, npcSyncTimer, armed, startTimers, joins, ticks, steps>>

\* The terrains of the session.
GameTerrains == {"flat"}

Init ==
    /\ terrain \in GameTerrains
    /\ ball = [p \in Peers |-> NewBall]
    /\ InitGameVars
    /\ steps = 0
    /\ last = NoLast

Next ==
    \E p \in Peers :
        \/ LoadLevel(p)
        \/ SoloStart(p)
        \/ OpenRoom(p)
        \/ PeerJoin(p)
        \/ PeerLeave(p)
        \/ HostStart(p)
        \/ StartTimer(p)
        \/ Tick(p)
        \/ DeliverBall(p)
        \/ DeliverCollect(p)
        \/ DeliverNpc(p)
        \/ DeliverStart(p)
        \/ Lose(p)

Spec == Init /\ [][Next]_vars

---------------------------------------------------------------------------
(* SpecFall: one airborne Ball, on any terrain, run through Ball.update    *)
(* frame after frame with one frame time and one input until it is         *)
(* grounded.  The animation loop calls update in every frame, so the      *)
(* frame is weakly fair.                                                   *)

\* Frame times up to the cap of Game.loop, line 292.
FallDeltas == {16, 33, 50}

\* Airborne starts: 0.3 above the surface rising or falling, and on the
\* surface with the hop a soft stumble gives at speed 1.75 (0.8 * speed).
FallVertical ==
    {v \in InitVertical : ~v.grounded} \cup {[grounded |-> FALSE, up |-> 0, yv |-> 1400]}

InitFall ==
    /\ terrain \in Terrains
    /\ \E pos \in InitPositions, vel \in InitVelocities, r \in InitRadii,
          vert \in FallVertical, delta \in FallDeltas :
          /\ ball = [p \in Peers |->
                        IF p = "host" THEN BallAt(terrain, pos, vel, vert, r) ELSE NewBall]
          /\ last = [NoLast EXCEPT !.delta = delta]
    /\ steps = 0
    /\ InitGameVars

\* ball.update(direction, delta) on the airborne ball, with the frame time
\* of the run and no input; steps is the parity of the frames run.
FallStep ==
    /\ ~ball["host"].grounded
    /\ ball' = [ball EXCEPT !["host"] = BallUpdate(@, terrain, ZeroDir, last.delta)]
    /\ last' = [last EXCEPT !.op = "update", !.pre = ball["host"]]
    /\ steps' = 1 - steps
    /\ UNCHANGED <<terrain, gameVars>>

\* The animation loop runs a frame: Game.loop, lines 291-296, called by
\* renderer.setAnimationLoop (line 287) for as long as the page lives.
FrameRuns == ~ball["host"].grounded /\ steps' = 1 - steps

SpecFall == InitFall /\ [][FallStep]_vars /\ WF_steps(FrameRuns)

---------------------------------------------------------------------------
(* SpecSync: a session followed over many frames of the host, of any       *)
(* frame time up to the cap of Game.loop, with the joystick at rest; the   *)
(* guest opens its side of the room and may leave again.                   *)

\* Frames of one peer explored.
MaxSyncTicks == 6

\* Frame times: Math.min(this.clock.getDelta(), 0.05), line 292.
SyncDeltas == {16, 34, 50}

SyncTick(p) ==
    /\ ticks[p] < MaxSyncTicks
    /\ Frame(p, {ZeroDir}, SyncDeltas)

NextSync ==
    \E p \in Peers :
        \/ LoadLevel(p)
        \/ OpenRoom(p)
        \/ PeerJoin(p)
        \/ PeerLeave(p)
        \/ HostStart(p)
        \/ SyncTick(p)

SpecSync == Init /\ [][NextSync]_vars

---------------------------------------------------------------------------
(* SpecContact: one machine playing solo, its ball already rolling when it *)
(* meets the level's items.                                                *)

\* Where the ball is: the start, in contact with the big rock, and a place
\* 2.2 from the rock on the same line.
ContactPositions == {[x |-> 0, z |-> 8000], [x |-> 480, z |-> 7640]}

\* How the ball rolls: at rest, or toward the rock at speed 2, 6 or 8 (the
\* speed a held stick settles at is baseSpeed / damping = 8).
ContactVelocities ==
    {[x |-> 0, z |-> 0], [x |-> -1600, z |-> 1200],
     [x |-> -4800, z |-> 3600], [x |-> -6400, z |-> 4800]}

\* The machine after loadLevel and the Solo button, its ball rolling.
InitContact ==
    /\ terrain \in GameTerrains
    /\ \E pos \in ContactPositions, vel \in ContactVelocities, r \in InitRadii :
          ball = [p \in Peers |->
                    IF p = "host"
                    THEN BallAt(terrain, pos, vel, [grounded |-> TRUE, up |-> 0, yv |-> 0], r)
                    ELSE NewBall]
    /\ loaded = [p \in Peers |-> p = "host"]
    /\ started = [p \in Peers |-> p = "host"]
    /\ collectibles = [p \in Peers |-> IF p = "host" THEN LevelCollectibles(terrain) ELSE <<>>]
    /\ npcs = [p \in Peers |-> IF p = "host" THEN LevelNpcs ELSE <<>>]
    /\ network = [p \in Peers |-> NoNetwork]
    /\ remoteBall = [p \in Peers |-> NoRemoteBall]
    /\ proxies = [p \in Peers |-> 0]
    /\ npcSyncTimer = [p \in Peers |-> 0]
    /\ armed = [p \in Peers |-> 0]
    /\ startTimers = [p \in Peers |-> 0]
    /\ chan = [p \in Peers |-> [tp \in Topics |-> <<>>]]
    /\ joins = [p \in Peers |-> 0]
    /\ ticks = [p \in Peers |-> 0]
    /\ npcClock = [p \in Peers |-> [elapsed |-> 0, sends |-> 0]]
    /\ steps = 0
    /\ last = NoLast

NextContact == Tick("host")

SpecContact == InitContact /\ [][NextContact]_vars

---------------------------------------------------------------------------
(* SpecOpen: the same two machines, each receiving whatever a peer in the  *)
(* room may put on the wire, well-formed or not, at any time.              *)

IdentityState ==
    [x |-> 1000, y |-> 500, z |-> 7000, r |-> 500,
     qx |-> 0, qy |-> 0, qz |-> 0, qw |-> 1000, vx |-> 0, vz |-> 0]

TurnedState ==
    [x |-> -2000, y |-> 524, z |-> 9000, r |-> 524,
     qx |-> 0, qy |-> 600, qz |-> 0, qw |-> 800, vx |-> 1500, vz |-> -1500]

\* Snapshots a peer may receive: two well-formed ones, and ones with a NaN
\* in the position, the radius or the rotation.
OpenBallStates ==
    {IdentityState, TurnedState, [IdentityState EXCEPT !.x = NaN],
     [TurnedState EXCEPT !.r = NaN], [TurnedState EXCEPT !.qw = NaN]}

\* Collect events a peer may receive: ids inside and outside the level, the
\* NPC's collectible among them, under either role.
OpenCollectEvents == {[id |-> i, by |-> r] : i \in {0, 2, 3, 4}, r \in Peers}

\* Messages from the room explored in a session.
MaxRecv == 2

\* The wire hands p one more message.
Wire(p) ==
    /\ network[p].exists
    /\ steps < MaxRecv
    /\ steps' = steps + 1
    /\ UNCHANGED chan

OpenNpcStates == {[npcs |-> << [x |-> 1000, y |-> 200, z |-> 9000, ry |-> 1571] >>]}

\* The room reports one more peer to a machine that already has one: a
\* third browser entering the room code.  room.onPeerJoin (Network.ts 81-84)
\* and Game's onPeerJoin (151-178) run as for the first.
RoomJoin(p) ==
    /\ Wire(p)
    /\ network[p].connected
    /\ remoteBall' = [remoteBall EXCEPT ![p] = [exists |-> TRUE, rb |-> NewRemoteBall]]
    /\ proxies' = [proxies EXCEPT ![p] = @ + 1]
    /\ armed' = [armed EXCEPT ![p] = IF network[p].isHost THEN @ + 1 ELSE @]
    /\ last' = [NoLast EXCEPT !.op = "peerJoin", !.peer = p, !.preRemote = remoteBall[p]]
    /\ UNCHANGED <<terrain, npcClock, ball, loaded, started, network, collectibles, npcs,
                   npcSyncTimer, startTimers, joins, ticks>>

RecvBall(p) ==
    /\ Wire(p)
    /\ \E m \in OpenBallStates : OnBallState(p, m) /\ Handled(p, "onBallState", m)

RecvCollect(p) ==
    /\ Wire(p)
    /\ \E m \in OpenCollectEvents : OnCollectEvent(p, m) /\ Handled(p, "onCollectEvent", m)

RecvNpc(p) ==
    /\ Wire(p)
    /\ \E m \in OpenNpcStates : OnNPCState(p, m) /\ Handled(p, "onNPCState", m)

RecvStart(p) ==
    /\ Wire(p)
    /\ OnGameStart(p) /\ Handled(p, "onGameStart", [t |-> "s"])

NextOpen ==
    \E p \in Peers :
        \/ LoadLevel(p)
        \/ OpenRoom(p)
        \/ PeerJoin(p)
        \/ HostStart(p)
        \/ Tick(p)
        \/ RecvBall(p)
        \/ RecvCollect(p)
        \/ RecvNpc(p)
        \/ RecvStart(p)
        \/ RoomJoin(p)

SpecOpen == Init /\ [][NextOpen]_vars

---------------------------------------------------------------------------
(* Claims *)

\* C1 (as stated): at the end of every Ball.update that leaves the ball
\* grounded, y is the ground height at the final, clamped (x, z) plus the
\* radius.
C1_GroundedOnSurface ==
    \A p \in Peers :
        (last.op = "update" /\ last.peer = p /\ ball[p].grounded)
            => ball[p].y = Height(terrain, ball[p].x, ball[p].z) + ball[p].radius

\* The item of a received collect event is one this peer collected itself:
\* it hung under the local ball when the event arrived.
C2_OwnItemEvent ==
    /\ last.op = "onCollectEvent"
    /\ last.msg.id \in DOMAIN last.preItems
    /\ last.preItems[last.msg.id].collected
    /\ last.preItems[last.msg.id].parent = "ball"

\* C2 (as stated): a collect event for an item this peer has collected
\* itself changes nothing: not the flag, not the parent, not any other
\* local state.
C2_OwnItemEventIsNoOp ==
    C2_OwnItemEvent
        => /\ collectibles[last.peer] = last.preItems
           /\ ball[last.peer] = last.pre
           /\ remoteBall[last.peer] = last.preRemote
           /\ started[last.peer] = last.preStarted

\* C2 (amended): a collect event for an item this peer has collected itself
\* leaves the flag set and the ball, the proxy's motion, the started flag
\* and every other item as they were; the item itself stays under the local
\* ball only if the event carries this peer's own role or there is no
\* proxy, and otherwise moves under the proxy of the other player.
C2_OwnItemEventReparents ==
    C2_OwnItemEvent
        => LET p == last.peer
               id == last.msg.id
               moved == last.msg.by # MyRole(network[p]) /\ last.preRemote.exists
           IN  /\ collectibles[p][id].collected
               /\ collectibles[p][id].parent = IF moved THEN "remoteBall" ELSE "ball"
               /\ ~moved => collectibles[p][id] = last.preItems[id]
               /\ \A j \in DOMAIN last.preItems :
                      j # id => collectibles[p][j] = last.preItems[j]
               /\ ball[p] = last.pre
               /\ remoteBall[p] = last.preRemote
               /\ started[p] = last.preStarted

\* C2 witness: both players took the same item, and the other player's
\* event has arrived here and moved it under the proxy.
C2_Witness ==
    /\ C2_OwnItemEvent
    /\ last.msg.by = Other(MyRole(network[last.peer]))
    /\ collectibles[last.peer][last.msg.id].parent = "remoteBall"

\* C3 (as stated): no malformed value reaches a proxy: its target position,
\* quaternion, radius and velocity stay well-formed whatever snapshot
\* arrives, and so do its displayed position and radius.
C3_MalformedRejected ==
    \A p \in Peers :
        remoteBall[p].exists
            => LET rb == remoteBall[p].rb
               IN  /\ ~IsNaN(rb.targetPos.x) /\ ~IsNaN(rb.targetPos.y) /\ ~IsNaN(rb.targetPos.z)
                   /\ ~QuatHasNaN(rb.targetQuat)
                   /\ ~IsNaN(rb.targetRadius)
                   /\ ~IsNaN(rb.velocity.x) /\ ~IsNaN(rb.velocity.z)
                   /\ ~IsNaN(rb.x) /\ ~IsNaN(rb.y) /\ ~IsNaN(rb.z)
                   /\ ~IsNaN(rb.radius)

\* Scenario B: Ball.stumble on an item of size 3.0 at radius 0.5, pushed
\* along a unit direction away from the item.
C4_ScenarioB ==
    /\ last.op = "stumble"
    /\ last.pre.radius = 500
    /\ last.size = 3000
    /\ last.d \in UnitDirs

\* C4 (as stated): scenario B takes the hard branch and ends with a
\* velocity that has no component toward the item.
C4_ScenarioBHard ==
    C4_ScenarioB
        => /\ ball[last.peer] = StumbleHard(last.pre, last.d, last.overlap)
           /\ Dot(ball[last.peer].vx, ball[last.peer].vz, last.d) >= 0

\* C4 (amended): scenario B takes the soft branch, 3.0 / (2 * 0.5) not
\* being greater than 3: the ball leaves the ground, and its velocity along
\* the direction away from the item is 0.6 of what it was (to a rounding of
\* 0.002), so a ball that was moving into the item still is.
C4_ScenarioBSoft ==
    C4_ScenarioB
        => LET b == ball[last.peer]
               before == Dot(last.pre.vx, last.pre.vz, last.d)
               after == Dot(b.vx, b.vz, last.d)
           IN  /\ \E rAngle \in Randoms, rSide \in Randoms :
                      b = StumbleSoft(last.pre, last.d, last.overlap, rAngle, rSide)
               /\ b # StumbleHard(last.pre, last.d, last.overlap)
               /\ ~b.grounded
               /\ Abs(after - Div(before * 6, 10)) <= 2
               /\ before < -2 => after < 0

\* C4 witness: scenario B with the ball moving into the item, and still
\* moving into it afterwards.
C4_Witness ==
    /\ C4_ScenarioB
    /\ Dot(last.pre.vx, last.pre.vz, last.d) < 0
    /\ Dot(ball[last.peer].vx, ball[last.peer].vz, last.d) < 0

\* The collect events among the messages one frame has sent.
CollectEventsOf(ms) == {k \in DOMAIN ms : "by" \in DOMAIN ms[k]}

\* One step as C5 allows it: no flag goes back to false, and a frame
\* neither touches an item that was collected before it (no collection, no
\* growth, no stumble, no event, no move) nor takes one item twice.
C5_Step ==
    /\ \A p \in Peers : \A i \in DOMAIN collectibles[p] :
           collectibles[p][i].collected => collectibles'[p][i].collected
    /\ last'.op = "tick"
           => LET p == last'.peer
                  hits == last'.hits
                  sent == last'.sent
                  collects == {k \in DOMAIN hits : hits[k].tier = "collect"}
              IN  /\ \A k \in DOMAIN hits : ~collectibles[p][hits[k].id].collected
                  /\ \A k, j \in DOMAIN hits : hits[k].id = hits[j].id => k = j
                  /\ \A k \in CollectEventsOf(sent) : ~collectibles[p][sent[k].id].collected
                  /\ \A i \in DOMAIN collectibles[p] :
                         collectibles[p][i].collected
                             => collectibles'[p][i] = collectibles[p][i]
                  /\ ball'[p].collectedCount = ball[p].collectedCount + Cardinality(collects)

\* C5: a collectible's collected flag only ever goes from false to true,
\* and once it is true checkCollisions never again collects the item, grows
\* the ball for it, stumbles on it or sends a collect event for it.
C5_CollectedOnce == [][C5_Step]_vars

\* C5 witness: a frame has run with an item collected before it that still
\* lies within touching distance of the ball, and has passed over it.
C5_Witness ==
    /\ last.op = "tick"
    /\ \E i \in DOMAIN last.preItems :
           /\ last.preItems[i].collected
           /\ Dist3(ball[last.peer], last.preItems[i].pos)
                  < TouchDist(ball[last.peer].radius, last.preItems[i].size)
           /\ \A k \in DOMAIN last.hits : last.hits[k].id # i

\* C6: Ball.radius never decreases and is never below the start radius,
\* step after step of the session.
C6_RadiusMonotone ==
    [][\A p \in Peers : ball'[p].radius >= ball[p].radius /\ ball'[p].radius >= StartRadius]_vars

\* C6 witness: a frame in which the ball collected an item and grew, and
\* then stumbled on another.
C6_Witness ==
    /\ last.op = "tick"
    /\ ball[last.peer].radius > last.pre.radius
    /\ \E k \in DOMAIN last.hits : last.hits[k].tier # "collect"

\* The branch the rule gives for a contact.
C7_Rule(size, radius) ==
    IF 2 * size < 3 * radius THEN "collect"
    ELSE IF size > 6 * radius THEN "hard"
    ELSE "soft"

\* What contact h did to the ball and the item is what one branch does,
\* and not what another does.
C7_Took(branch, h, post, item) ==
    LET hard == StumbleHard(h.pre, h.d, h.overlap)
        soft == {StumbleSoft(h.pre, h.d, h.overlap, r[1], r[2]) : r \in GameDraws}
    IN  CASE branch = "collect" ->
                 /\ item.collected /\ item.parent = "ball"
                 /\ post.collectedCount = h.pre.collectedCount + 1
                 /\ post.radius > h.pre.radius
                 /\ post.vx = h.pre.vx /\ post.vz = h.pre.vz
          [] branch = "hard" ->
                 /\ ~item.collected
                 /\ post = hard /\ post \notin soft
          [] branch = "soft" ->
                 /\ ~item.collected
                 /\ post \in soft /\ post # hard

\* C7: the response to a contact is the one the rule gives for the item's
\* size and the ball's radius at that moment: collect iff size < 1.5 *
\* radius, else hard stumble iff size / (2 * radius) > 3, else soft
\* stumble; nothing else about the ball, the peer or the draws enters.
C7_BranchBySizeAndRadius ==
    last.op = "tick"
        => LET p == last.peer
               hits == last.hits
               post(k) == IF k < Len(hits) THEN hits[k + 1].pre ELSE ball[p]
           IN  \A k \in DOMAIN hits :
                   C7_Took(C7_Rule(hits[k].size, hits[k].pre.radius), hits[k], post(k),
                           collectibles[p][hits[k].id])

\* C7 witness: one frame has met all three branches, the soft one at the
\* very ratio 3 that separates it from the hard one.
C7_Witness ==
    /\ last.op = "tick"
    /\ \E k \in DOMAIN last.hits :
           last.hits[k].size = 6 * last.hits[k].pre.radius
    /\ \E k \in DOMAIN last.hits : 2 * last.hits[k].size < 3 * last.hits[k].pre.radius

\* C8: after a hard stumble along the unit direction from the obstacle to
\* the ball, the velocity has no component toward the obstacle.
C8_HardStumbleOutward ==
    (last.op = "stumble" /\ last.tier = "hard" /\ last.d \in UnitDirs)
        => Dot(ball[last.peer].vx, ball[last.peer].vz, last.d) >= 0

\* C8 witness: a hard stumble of a ball that was moving into the obstacle.
C8_Witness ==
    /\ last.op = "stumble" /\ last.tier = "hard" /\ last.d \in UnitDirs
    /\ Dot(last.pre.vx, last.pre.vz, last.d) < 0

\* The target of proxy rb is snapshot m, field for field.
C9_TargetIs(rb, m) ==
    /\ rb.targetPos = [x |-> m.x, y |-> m.y, z |-> m.z]
    /\ rb.targetQuat = [x |-> m.qx, y |-> m.qy, z |-> m.qz, w |-> m.qw]
    /\ rb.targetRadius = m.r
    /\ rb.velocity.x = m.vx /\ rb.velocity.z = m.vz

\* C9: after a snapshot is handled the proxy's target is that snapshot,
\* whatever the target was before, the displayed state is untouched, and
\* handling the same snapshot again would change nothing.
C9_TargetOverwritten ==
    (last.op = "onBallState" /\ remoteBall[last.peer].exists)
        => LET rb == remoteBall[last.peer].rb
               old == last.preRemote.rb
           IN  /\ C9_TargetIs(rb, last.msg)
               /\ rb.x = old.x /\ rb.y = old.y /\ rb.z = old.z
               /\ rb.quat = old.quat /\ rb.radius = old.radius
               /\ UpdateFromNetwork(rb, last.msg) = rb

\* C9 witness: a well-formed snapshot has arrived a second time in a row,
\* the target already being that snapshot.
C9_Witness ==
    /\ last.op = "onBallState" /\ remoteBall[last.peer].exists
    /\ last.msg = TurnedState
    /\ last.preRemote.exists
    /\ C9_TargetIs(last.preRemote.rb, TurnedState)

\* C10: a ball message starts the game of a guest that had not started,
\* whether or not any start message was delivered, and never changes
\* whether a host has started.
C10_BallStartsGuestOnly ==
    last.op = "onBallState"
        => IF network[last.peer].isHost
           THEN started[last.peer] = last.preStarted
           ELSE started[last.peer]

\* C10 witness: a guest that had not started, and had been handed no start
\* message, has handled a ball message.
C10_Witness ==
    /\ last.op = "onBallState"
    /\ ~network[last.peer].isHost
    /\ ~last.preStarted
    /\ started[last.peer]

\* C11: the start message is idempotent on its receiver.  Handling a start
\* message leaves the receiver started; handling one when already started
\* (a repeat of the three the host sends, or one that follows a ball
\* message) changes nothing of either machine; and started never goes back
\* to false, whatever step is taken.
C11_StartIdempotent ==
    [][ /\ \A p \in Peers : started[p] => started'[p]
        /\ last'.op = "onGameStart"
              => /\ started'[last'.peer]
                 /\ \A q \in Peers \ {last'.peer} : started'[q] = started[q]
                 /\ UNCHANGED <<terrain, npcClock, ball, loaded, network, remoteBall, proxies,
                                collectibles, npcs, npcSyncTimer, armed, startTimers,
                                joins, ticks>> ]_vars

\* C11 witness: a guest that had already started has handled one more
\* start message.
C11_Witness ==
    /\ last.op = "onGameStart"
    /\ ~network[last.peer].isHost
    /\ last.preStarted
    /\ started[last.peer]

\* No onPeerJoin has run on either machine: no peer connection was ever
\* established.
C12_NoPeerEver == \A q \in Peers : joins[q] = 0

\* C12: a machine that has created or joined a room, while no peer
\* connection is ever established, keeps connected false, has sent nothing,
\* and can still start: it has started, or one of the gestures that start a
\* game without a message from a peer (soloStart, hostStart) is open to it.
C12_RoomWithoutPeerCanStart ==
    \A p \in Peers :
        (network[p].exists /\ C12_NoPeerEver)
            => /\ ~network[p].connected
               /\ \A q \in Peers : \A t \in Topics : chan[q][t] = <<>>
               /\ last.sent = <<>>
               /\ started[p] \/ ENABLED SoloStart(p) \/ ENABLED HostStart(p)

\* What the code does instead: such a machine has not started, and stays
\* so for as long as no peer joins.
C12_StuckOnStartScreen ==
    \A p \in Peers :
        (network[p].exists /\ C12_NoPeerEver)
            => /\ ~started[p]
               /\ ~network[p].connected
               /\ \A q \in Peers : \A t \in Topics : chan[q][t] = <<>>
               /\ ~ENABLED SoloStart(p) /\ ~ENABLED HostStart(p)

\* The session of peer p has been left: a peer had joined, and the
\* peer-leave event has fired since.
C13_Left(p) == network[p].exists /\ joins[p] > 0 /\ ~network[p].connected

C14_Case ==
    /\ last.op = "onCollectEvent"
    /\ ~network[last.peer].isHost
    /\ last.msg.by = "host"
    /\ last.msg.id \in DOMAIN last.preItems
    /\ ~last.preItems[last.msg.id].collected
    /\ last.preRemote.exists

\* C14: in that case the item is marked collected and hangs under the
\* remote proxy, every other item is as it was, and the guest's own ball
\* (radius, collectedCount and all the rest) is unchanged by the event.
C14_RemoteCollectReparents ==
    C14_Case
        => LET p == last.peer
               id == last.msg.id
           IN  /\ collectibles[p][id].collected
               /\ collectibles[p][id].parent = "remoteBall"
               /\ \A i \in DOMAIN collectibles[p] \ {id} :
                      collectibles[p][i] = last.preItems[i]
               /\ ball[p].radius = last.pre.radius
               /\ ball[p].collectedCount = last.pre.collectedCount
               /\ ball[p] = last.pre
               /\ remoteBall[p] = last.preRemote

\* C14 witness: the case has happened, the item lay in the scene before.
C14_Witness ==
    /\ C14_Case
    /\ last.preItems[last.msg.id].parent = "scene"
    /\ collectibles[last.peer][last.msg.id].parent = "remoteBall"

\* The items a frame collected, out of the contacts it recorded.
C15_Collects(hits) == SelectSeq(hits, LAMBDA h : h.tier = "collect")

\* The sum of 0.08 times the size over a sequence of collected items.
RECURSIVE C15_Growth(_)
C15_Growth(hs) ==
    IF hs = <<>> THEN 0 ELSE (Head(hs).size * 8) \div 100 + C15_Growth(Tail(hs))

\* C15: whatever step is taken, the radius of each ball rises by exactly
\* 0.08 times the size of every item that ball collected locally in the
\* step, and its collectedCount by the number of those items; so a step
\* that collects nothing (a frame with only movement or a stumble, a
\* received collect, ball, npc or start message, a join or a leave) leaves
\* both as they were.  pushBack, which no frame calls, is applied to the
\* ball of every state and changes neither.
C15_GrowthOnlyByCollect ==
    [][ \A p \in Peers :
          LET hs == IF last'.op = "tick" /\ last'.peer = p
                    THEN C15_Collects(last'.hits) ELSE <<>>
          IN  /\ ball'[p].radius = ball[p].radius + C15_Growth(hs)
              /\ ball'[p].collectedCount = ball[p].collectedCount + Len(hs)
              /\ \A d \in UnitDirs, ov \in Overlaps :
                     LET b == BallPushBack(ball[p], d, ov)
                     IN  b.radius = ball[p].radius
                         /\ b.collectedCount = ball[p].collectedCount ]_vars

\* C15 witness: a ball of radius 0.5 has collected the item of size 0.3 and
\* has radius 0.524 and one item more.
C15_Witness ==
    /\ last.op = "tick"
    /\ last.pre.radius = 500
    /\ Len(C15_Collects(last.hits)) = 1
    /\ C15_Collects(last.hits)[1].size = 300
    /\ ball[last.peer].radius = 524
    /\ ball[last.peer].collectedCount = last.pre.collectedCount + 1

\* The items of peer p whose collected flag the step turns on.
C16_Flipped(p) ==
    {i \in DOMAIN collectibles[p] :
        ~collectibles[p][i].collected /\ collectibles'[p][i].collected}

\* C16: a frame run while connected sends exactly one collect message for
\* each item it collects locally, carrying the item's index and the
\* sender's own role, and no other collect message; a frame run while not
\* connected, and every step that is not a frame, sends none.  A message
\* is only ever sent for an item whose flag was off before the step, and
\* no flag goes back to off, so a peer sends at most one per item.
C16_OneCollectPerItem ==
    [][ LET p == last'.peer
            ks == CollectEventsOf(last'.sent)
        IN  /\ \A q \in Peers : \A i \in DOMAIN collectibles[q] :
                   collectibles[q][i].collected => collectibles'[q][i].collected
            /\ last'.op # "tick" => ks = {}
            /\ last'.op = "tick"
                  => IF network[p].exists /\ network[p].connected
                     THEN /\ \A k \in ks : /\ last'.sent[k].id \in C16_Flipped(p)
                                            /\ last'.sent[k].by = MyRole(network[p])
                                            /\ collectibles'[p][last'.sent[k].id].parent = "ball"
                          /\ \A i \in C16_Flipped(p) :
                                Cardinality({k \in ks : last'.sent[k].id = i}) = 1
                     ELSE ks = {} ]_vars

\* C16 witness: a connected guest has collected an item in a frame and has
\* sent the event for it.
C16_Witness ==
    /\ last.op = "tick"
    /\ network[last.peer].connected /\ ~network[last.peer].isHost
    /\ \E k \in CollectEventsOf(last.sent) :
          /\ last.sent[k].by = "guest"
          /\ ~last.preItems[last.sent[k].id].collected
          /\ collectibles[last.peer][last.sent[k].id].parent = "ball"

\* The npc messages among the messages one step has sent.
NpcMessagesOf(ms) == {k \in DOMAIN ms : "npcs" \in DOMAIN ms[k]}

\* C17: npc messages flow from the host to the guest only.  No step of a
\* peer whose isHost is false sends an npc message; and a host that handles
\* an npc message leaves its NPCs (facing, networkControlled and every
\* other field) and their positions, held by their collectibles, unchanged.
C17_NpcHostToGuestOnly ==
    [][ LET p == last'.peer
        IN  /\ ~network[p].isHost => NpcMessagesOf(last'.sent) = {}
            /\ (last'.op = "onNPCState" /\ network[p].isHost)
                  => /\ npcs'[p] = npcs[p]
                     /\ collectibles'[p] = collectibles[p]
                     /\ \A k \in DOMAIN npcs'[p] : ~npcs'[p][k].networkControlled ]_vars

\* C17 witness: a host whose level has loaded has handled an npc message
\* that places its first NPC somewhere else than it stands.
C17_Witness ==
    /\ last.op = "onNPCState"
    /\ network[last.peer].isHost
    /\ npcs[last.peer] # <<>>
    /\ LET n == npcs[last.peer][1]
           pos == collectibles[last.peer][n.item].pos
       IN  /\ pos.x # last.msg.npcs[1].x
           /\ n.facingAngle # last.msg.npcs[1].ry
           /\ ~n.networkControlled

\* C18: every npc message is sent by a frame of the host, one per frame,
\* and the frames the host has run since its previous npc message (since
\* construction for the first), the sending frame included, add up to at
\* least 0.1 s of simulated time; each frame time is above 0 and at most
\* 0.05 s, and every connected frame in between has sent a ball message.
C18_NpcThrottled ==
    [][ LET p == last'.peer
        IN  NpcMessagesOf(last'.sent) # {}
              => /\ last'.op = "tick"
                 /\ network[p].isHost
                 /\ Cardinality(NpcMessagesOf(last'.sent)) = 1
                 /\ last'.delta > 0 /\ last'.delta <= 50
                 /\ npcClock[p].elapsed + last'.delta >= 100
                 /\ npcClock'[p].sends = npcClock[p].sends + 1 ]_vars

\* C18 witness: the host has just sent its second npc message, in a frame
\* of 0.016 s, so the frames since the first were of different lengths.
C18_Witness ==
    /\ last.op = "tick"
    /\ NpcMessagesOf(last.sent) # {}
    /\ npcClock[last.peer].sends = 2
    /\ last.delta = 16

\* The ball messages among the messages one step has sent.
C19_BallMessagesOf(ms) == {k \in DOMAIN ms : "qx" \in DOMAIN ms[k]}

\* C19: a frame run while connected, by the host or by the guest, has sent
\* exactly one ball message, and it carries the ball as the frame left it,
\* after the collisions were resolved: position, rotator quaternion, radius
\* and planar velocity.  A frame run while not connected has sent none; no
\* other step sends one, and frames run only once the game has started.
C19_OneBallPerConnectedFrame ==
    LET p == last.peer
        ks == C19_BallMessagesOf(last.sent)
        b == ball[p]
    IN  /\ last.op # "tick" => ks = {}
        /\ last.op = "tick"
              => /\ last.preStarted
                 /\ IF network[p].exists /\ network[p].connected
                    THEN /\ Cardinality(ks) = 1
                         /\ \A k \in ks :
                               LET m == last.sent[k]
                               IN  /\ m.x = b.x /\ m.y = b.y /\ m.z = b.z
                                   /\ m.r = b.radius
                                   /\ m.qx = b.quat.x /\ m.qy = b.quat.y
                                   /\ m.qz = b.quat.z /\ m.qw = b.quat.w
                                   /\ m.vx = b.vx /\ m.vz = b.vz
                    ELSE ks = {}

\* C19 witness: a connected guest has run a frame in which it collected an
\* item and pressed forward, and the ball message of the frame carries the
\* grown radius and the position and velocity the frame ended with.
C19_Witness ==
    /\ last.op = "tick"
    /\ network[last.peer].connected /\ ~network[last.peer].isHost
    /\ last.pre.radius = 500
    /\ \E k \in C19_BallMessagesOf(last.sent) :
          /\ last.sent[k].r = 524
          /\ last.sent[k].z # last.pre.z
          /\ last.sent[k].vz # 0

\* What a proxy displays: pivot position, rotator quaternion, radius.
C20_Displayed(rb) == <<rb.x, rb.y, rb.z, rb.quat, rb.radius>>

\* b lies between a and c, ends included, and at most the share f (in
\* thousandths) of the way from a to c, up to one unit of rounding.
C20_Toward(a, b, c, f) ==
    /\ (a <= b /\ b <= c) \/ (c <= b /\ b <= a)
    /\ Abs(b - a) * 1000 <= Abs(c - a) * f + 1000

\* The parts of C20 that do not depend on the point aimed at: a received
\* ball snapshot leaves what the proxy displays unchanged, and only a frame
\* of the peer itself changes what a proxy that stays in the scene displays.
C20_OnlyUpdateMoves ==
    \A p \in Peers :
        (remoteBall[p].exists /\ remoteBall'[p].exists
            /\ C20_Displayed(remoteBall'[p].rb) # C20_Displayed(remoteBall[p].rb))
          => (last'.op = "tick" /\ last'.peer = p)

\* One frame moves the displayed position of p's proxy toward the point
\* aim, by at most min(15 * delta, 1) of the way and never past it, and the
\* displayed radius toward the target radius, by at most min(10 * delta, 1)
\* of the way and never past it.
C20_FrameMovesToward(p, aim) ==
    LET old == remoteBall[p].rb
        new == remoteBall'[p].rb
        fp == Min(15 * last'.delta, 1000)
        fr == Min(10 * last'.delta, 1000)
    IN  /\ C20_Toward(old.x, new.x, aim.x, fp)
        /\ C20_Toward(old.y, new.y, aim.y, fp)
        /\ C20_Toward(old.z, new.z, aim.z, fp)
        /\ C20_Toward(old.radius, new.radius, old.targetRadius, fr)
        /\ new.targetPos = old.targetPos /\ new.targetQuat = old.targetQuat
        /\ new.targetRadius = old.targetRadius /\ new.velocity = old.velocity

\* C20 as stated: a received ball snapshot changes only the proxy's target
\* and leaves the displayed position, orientation and radius unchanged; the
\* displayed state changes only in RemoteBall.update, which moves the
\* position toward the target position by at most min(15 * delta, 1) of the
\* way and the radius toward the target radius by at most
\* min(10 * delta, 1), never past the target.
C20_TowardTarget ==
    [][ /\ C20_OnlyUpdateMoves
        /\ \A p \in Peers :
              (last'.op = "tick" /\ last'.peer = p /\ remoteBall[p].exists)
                => C20_FrameMovesToward(p, remoteBall[p].rb.targetPos) ]_vars

\* The point RemoteBall.update aims at: the target position moved on by the
\* target velocity over the frame.
C20_Predicted(rb, delta) ==
    [x |-> rb.targetPos.x + (rb.velocity.x * delta) \div 1000,
     y |-> rb.targetPos.y,
     z |-> rb.targetPos.z + (rb.velocity.z * delta) \div 1000]

\* C20, amended: the same, with the displayed position moving toward the
\* predicted point, target position plus target velocity times delta, and
\* never past that point; it may pass the target position itself.
C20_TowardPredicted ==
    [][ /\ C20_OnlyUpdateMoves
        /\ \A p \in Peers :
              (last'.op = "tick" /\ last'.peer = p /\ remoteBall[p].exists)
                => C20_FrameMovesToward(p, C20_Predicted(remoteBall[p].rb, last'.delta)) ]_vars

\* C20 witness: a frame has carried the displayed position of a proxy past
\* the target position it held, toward the predicted point beyond it.
C20_Witness ==
    /\ last.op = "tick"
    /\ last.preRemote.exists /\ remoteBall[last.peer].exists
    /\ LET old == last.preRemote.rb
           new == remoteBall[last.peer].rb
       IN  /\ old.velocity.z < 0
           /\ old.targetPos.z < old.z
           /\ new.z < old.targetPos.z
           /\ new.z >= C20_Predicted(old, last.delta).z

\* C21: an airborne ball eventually re-enters Grounded: from any airborne
\* state over static terrain, Ball.update repeated with one frame time of
\* at most 0.05 s, and no stumble, reaches grounded = true.
C21_EventuallyGrounded == <>(ball["host"].grounded)

\* The bounce that C21 misses: a ball resting on the surface, flagged
\* airborne, whose next frame lands it faster than 1 and bounces it back to
\* the very state it is in.
C21_BouncesForEver ==
    LET b == ball["host"]
    IN  /\ ~b.grounded
        /\ last.op = "update"
        /\ b.y = Height(terrain, b.x, b.z) + b.radius
        /\ BallUpdate(b, terrain, ZeroDir, last.delta) = b

\* C22, the step that lifts the ball: an operation found it grounded and
\* left it airborne.
C22_Lifted ==
    /\ last.op # "init"
    /\ last.pre.grounded
    /\ ~ball["host"].grounded

\* C22 as stated: only a stumble lifts a grounded ball, never an update, and
\* the stumble that lifts it leaves a strictly positive vertical velocity.
C22_LiftedWithPositiveHop ==
    C22_Lifted => /\ last.op = "stumble"
                  /\ ball["host"].yVelocity > 0

\* C22 amended: only a stumble lifts a grounded ball, never an update, and
\* the stumble that lifts it sets the vertical velocity to 0.8 times the
\* speed (at most 6) in the soft tier and to 0.5 times the speed (at most 4)
\* in the hard tier: never negative, and zero for a soft stumble at rest.
C22_LiftedWithHopOfSpeed ==
    LET speed == Len2(last.pre.vx, last.pre.vz)
        yv == ball["host"].yVelocity
    IN  C22_Lifted =>
          /\ last.op = "stumble"
          /\ yv >= 0
          /\ last.tier = "soft" => yv = Min(Div(speed * 8, 10), 6000)
          /\ last.tier = "hard" => yv = Min(Div(speed * 5, 10), 4000) /\ yv > 500
          /\ speed >= 2 => yv > 0

\* A soft stumble lifted a ball at rest: airborne with vertical velocity 0.
C22_Witness ==
    /\ C22_Lifted
    /\ last.op = "stumble"
    /\ last.tier = "soft"
    /\ last.pre.vx = 0 /\ last.pre.vz = 0
    /\ ball["host"].yVelocity = 0

\* C23: right after attachItem has grown the ball, its centre is at least
\* the new radius above the surface under it, on every terrain.
C23_GrowKeepsAboveSurface ==
    LET b == ball["host"]
    IN  last.op = "attachItem" => b.y >= Height(terrain, b.x, b.z) + b.radius

\* C24: a stumble leaves a grounded ball airborne exactly when the tier is
\* soft (at any speed) or the tier is hard and the speed before it exceeded
\* 1; a stumble of an airborne ball leaves grounded and the vertical
\* velocity as they were.
C24_HopCondition ==
    LET pre == last.pre
        b == ball["host"]
        speed == Len2(pre.vx, pre.vz)
    IN  last.op = "stumble" =>
          /\ pre.grounded =>
                (~b.grounded <=> (last.tier = "soft" \/ (last.tier = "hard" /\ speed > 1000)))
          /\ ~pre.grounded => ~b.grounded /\ b.yVelocity = pre.yVelocity

\* A hard stumble at speed 4 lifted a grounded ball.
C24_Witness ==
    /\ last.op = "stumble"
    /\ last.tier = "hard"
    /\ last.pre.grounded
    /\ Len2(last.pre.vx, last.pre.vz) > 1000
    /\ ~ball["host"].grounded

\* The other cases of C24: a hard stumble at rest keeps the ball grounded, a
\* soft stumble at rest lifts it, a falling ball keeps its vertical velocity.
C24_HardAtRest ==
    /\ last.op = "stumble" /\ last.tier = "hard" /\ last.pre.grounded
    /\ Len2(last.pre.vx, last.pre.vz) <= 1000
    /\ ball["host"].grounded

C24_Falling ==
    /\ last.op = "stumble" /\ ~last.pre.grounded
    /\ ball["host"].yVelocity = -3000

\* C26, the ball as Ball.update has moved it before the wall is applied:
\* input, slope, damping and the planar move of lines 236-262.
C26_Moved ==
    ApplyDampingAndMove(
      ApplySlope(ApplyInput(last.pre, last.d, last.delta), terrain, last.delta),
      last.delta)

\* C26: after every Ball.update the ball is within the wall, |x| <= 48 and
\* |z| <= 48, and the wall changes the position only: the planar velocity
\* is the one the move was made with, neither reversed nor zeroed.
C26_WallClampsPositionOnly ==
    LET b == ball["host"]
    IN  last.op = "update" =>
          /\ Abs(b.x) <= Bounds /\ Abs(b.z) <= Bounds
          /\ b.x = Clamp(C26_Moved.x, -Bounds, Bounds)
          /\ b.z = Clamp(C26_Moved.z, -Bounds, Bounds)
          /\ b.vx = C26_Moved.vx /\ b.vz = C26_Moved.vz

\* An update carried the ball past the east wall: it ends on the wall,
\* still moving east.
C26_Witness ==
    /\ last.op = "update"
    /\ C26_Moved.x > Bounds
    /\ ball["host"].x = Bounds
    /\ ball["host"].vx > 0

\* C27, the target a proxy is constructed with, as a snapshot.
C27_Constructed ==
    [x |-> NewRemoteBall.targetPos.x, y |-> NewRemoteBall.targetPos.y,
     z |-> NewRemoteBall.targetPos.z, r |-> NewRemoteBall.targetRadius,
     qx |-> NewRemoteBall.targetQuat.x, qy |-> NewRemoteBall.targetQuat.y,
     qz |-> NewRemoteBall.targetQuat.z, qw |-> NewRemoteBall.targetQuat.w,
     vx |-> NewRemoteBall.velocity.x, vz |-> NewRemoteBall.velocity.z]

\* The four target fields of proxy rb all come from one snapshot: one the
\* room has handed over, or the constructor's.
C27_OneSnapshot(rb) ==
    \E m \in OpenBallStates \cup {C27_Constructed} :
        /\ rb.targetPos = [x |-> m.x, y |-> m.y, z |-> m.z]
        /\ rb.targetRadius = m.r
        /\ rb.targetQuat = [x |-> m.qx, y |-> m.qy, z |-> m.qz, w |-> m.qw]
        /\ rb.velocity = [x |-> m.vx, z |-> m.vz]

\* C27: messages never interleave with a frame.  At every moment the target
\* of a proxy is one whole snapshot, position, radius, rotation and
\* velocity together, whatever the order of arrivals and frames; and the
\* frame's RemoteBall.update works from that target and leaves it as it is.
C27_TargetNeverTorn ==
    /\ \A p \in Peers : remoteBall[p].exists => C27_OneSnapshot(remoteBall[p].rb)
    /\ (last.op = "tick" /\ remoteBall[last.peer].exists /\ last.preRemote.exists)
          => LET rb == remoteBall[last.peer].rb
                 old == last.preRemote.rb
             IN  /\ C27_OneSnapshot(old)
                 /\ rb = RemoteBallUpdate(old, last.delta)
                 /\ rb.targetPos = old.targetPos /\ rb.targetRadius = old.targetRadius
                 /\ rb.targetQuat = old.targetQuat /\ rb.velocity = old.velocity

\* Two different snapshots have arrived and a frame has run after the
\* second: the proxy has moved and its target is the second, whole.
C27_Witness ==
    /\ last.op = "tick"
    /\ remoteBall[last.peer].exists
    /\ steps = 2
    /\ C9_TargetIs(remoteBall[last.peer].rb, TurnedState)
    /\ remoteBall[last.peer].rb.x # NewRemoteBall.x
    /\ remoteBall[last.peer].rb.radius # NewRemoteBall.radius

\* C28: the collected flags converge.  Whenever no collect message is in
\* flight, every item is collected on one machine iff it is collected on
\* the other.
C28_FlagsConverge ==
    (/\ \A p \in Peers : loaded[p] /\ network[p].exists
     /\ \A p \in Peers : chan[p]["collect"] = <<>>)
        => \A i \in DOMAIN collectibles["host"] :
              collectibles["host"][i].collected = collectibles["guest"][i].collected

\* C28, the run that breaks it without any message being lost: the host
\* has had its peer-leave event, then collected an item in a frame that
\* sent nothing, and the guest's copy of the item is not collected.
C28_CollectedAfterLeave ==
    /\ \A p \in Peers : loaded[p] /\ network[p].exists
    /\ \A p \in Peers : chan[p]["collect"] = <<>>
    /\ last.op = "tick" /\ last.peer = "host"
    /\ ~network["host"].connected
    /\ last.sent = <<>>
    /\ \E i \in DOMAIN collectibles["host"] :
          /\ collectibles["host"][i].collected
          /\ ~last.preItems[i].collected
          /\ ~collectibles["guest"][i].collected

\* C29: at every moment at most one proxy ball of a machine is in its
\* scene, whatever peer-join and peer-leave events the room delivers.
C29_AtMostOneProxy == \A p \in Peers : proxies[p] <= 1

\* C29, the run that breaks it: a second peer-join event has replaced the
\* proxy the machine held, and the old one is still in the scene.
C29_ProxyLeftBehind ==
    /\ last.op = "peerJoin"
    /\ last.preRemote.exists
    /\ remoteBall[last.peer].exists
    /\ proxies[last.peer] = 2

\* C30: once an NPC's collectible is collected on a machine, neither a frame
\* (NPC.update) nor an npc message handled there changes the NPC's position
\* or facing.
C30_CollectedNpcFrozen ==
    [][ \A p \in Peers : \A k \in DOMAIN npcs[p] :
          (/\ last'.op \in {"tick", "onNPCState"}
           /\ last'.peer = p
           /\ collectibles[p][npcs[p][k].item].collected)
             => /\ collectibles'[p][npcs[p][k].item].pos = collectibles[p][npcs[p][k].item].pos
                /\ npcs'[p][k].facingAngle = npcs[p][k].facingAngle ]_vars

\* C30, the state that breaks it: a guest whose NPC was already collected
\* has handled an npc message and the NPC stands where the message says.
C30_CollectedNpcMoved ==
    /\ last.op = "onNPCState"
    /\ ~network[last.peer].isHost
    /\ \E k \in DOMAIN npcs[last.peer] :
          LET i == npcs[last.peer][k].item
          IN  /\ last.preItems[i].collected
              /\ collectibles[last.peer][i].pos # last.preItems[i].pos
              /\ collectibles[last.peer][i].pos.x = last.msg.npcs[k].x
              /\ npcs[last.peer][k].facingAngle = last.msg.npcs[k].ry

\* C30, the part that holds: a frame leaves a collected NPC where it is.
C30_FrameLeavesCollectedNpc ==
    (last.op = "tick" /\ loaded[last.peer])
        => \A k \in DOMAIN npcs[last.peer] :
              LET i == npcs[last.peer][k].item
              IN  last.preItems[i].collected
                    => collectibles[last.peer][i].pos = last.preItems[i].pos

\* C25, the ball right after the stumble of hit h, and how far its centre
\* is from the item it stumbled over.
C25_After(h) == BallStumble(h.pre, h.d, h.overlap, h.size, 0, 0)

C25_Distance(h, itemPos) ==
    Dist3([x |-> C25_After(h).x, y |-> C25_After(h).y, z |-> C25_After(h).z], itemPos)

\* C25: right after a hard stumble the ball's centre is at least the touch
\* distance radius + 0.3 * size from the item, so the item's collision test
\* fails until the ball moves back.
C25_HardStumbleClears ==
    last.op = "tick" =>
        \A k \in DOMAIN last.hits :
            LET h == last.hits[k]
            IN  h.tier = "hard"
                  => C25_Distance(h, collectibles[last.peer][h.id].pos)
                        >= TouchDist(h.pre.radius, h.size)

\* C25, the case that holds: a hard stumble at a planar overlap of under
\* 0.1 has cleared the item.
C25_ShallowCleared ==
    /\ last.op = "tick"
    /\ \E k \in DOMAIN last.hits :
          LET h == last.hits[k]
          IN  /\ h.tier = "hard"
              /\ h.overlap < 100
              /\ C25_Distance(h, collectibles[last.peer][h.id].pos)
                    >= TouchDist(h.pre.radius, h.size)

\* C25, the case that breaks it: after a hard stumble at an overlap of 0.3
\* or more the ball is still within the touch distance.
C25_DeepNotCleared ==
    /\ last.op = "tick"
    /\ \E k \in DOMAIN last.hits :
          LET h == last.hits[k]
          IN  /\ h.tier = "hard"
              /\ h.overlap >= 300
              /\ C25_Distance(h, collectibles[last.peer][h.id].pos)
                    < TouchDist(h.pre.radius, h.size) - 5

====
